---- MODULE Spec2Model ----
(***************************************************************************)
(* Model of the Solana balance reporter's fetch pipeline.                  *)
(*                                                                         *)
(*  Spec      : Client.FetchTokenBalances (the semaphore-gated fan-out),   *)
(*              Client.FetchBalances (the native/token task pair of one    *)
(*              address) and the step of runFetchAndReport that consumes   *)
(*              the returned balances.                                     *)
(*  SpecFetch : one call of Client.FetchSolanaBalance or                   *)
(*              Client.FetchTokenBalance: the retry loop, the backoff      *)
(*              select, the classification of failures and the decoding of *)
(*              the response.                                              *)
(*  SpecDeadline : one such call as FetchTokenBalances makes it during a   *)
(*              cycle of runFetchAndReport, whose context has a deadline.  *)
(*  SpecCycle : the cycles of runFetchAndReport: read the addresses, fetch,*)
(*              CSVWriter.WriteBalancesWithFilename (CompareBalances, the  *)
(*              CSV file, the run ledger), GetChangeStats, SendReport.     *)
(*  SpecCompare : one call of CSVWriter.CompareBalances on given current   *)
(*              balances, ledger and previous file.                        *)
(*  SpecTicker : main's ticker loop and the calls of runFetchAndReport it  *)
(*              starts, with iterationLock and isIterationRunning.         *)
(*  SpecMail  : one call of Mailer.SendReport: the checks before the send  *)
(*              loop, the attempts and the waits between them.             *)
(*  SpecFair  : Spec with the goroutines scheduled fairly and every fetch   *)
(*              returning, for the termination properties.                 *)
(*  SpecStamp : the ticker loop with the run timestamp of each cycle and    *)
(*              the log and CSV file names made from it.                   *)
(*  SpecToken : the end of FetchTokenBalance: the response is decoded and  *)
(*              the balance extracted from the token accounts.             *)
(***************************************************************************)
EXTENDS Integers, Sequences, FiniteSets, TLC

\* ------------------------------------------------------------------ bounds
MaxAddrs == 2
MaxLimit == 2
MaxRetriesBound == 2

\* --------------------------------------------------------------- constants
\* retryDelay of solana.New, in milliseconds (500 * time.Millisecond)
retryDelay == 500

\* wallet addresses the address file may hold (duplicates are possible)
Addr == {"a1", "a2"}

\* balances a successful native / token fetch may deliver
SolVals == {5}
TokVals == {7}

VARIABLES
  \* ---- FetchTokenBalances / FetchBalances
  addresses,        \* the addresses argument
  concurrencyLimit, \* the concurrencyLimit argument
  callerPc,         \* position of the goroutine that called FetchTokenBalances
  dispatchI,        \* index of the next address the dispatch loop handles
  sem,              \* number of tokens held in the semaphore channel
  resultCh,         \* contents of the buffered result channel
  workerPc,         \* position of the worker goroutine of each address index
  solTask,          \* the goroutine running FetchSolanaBalance, per index
  tokenTask,        \* the goroutine running FetchTokenBalance, per index
  solResult,        \* FetchBalances' local solResult, per index
  tokenResult,      \* FetchBalances' local tokenResult, per index
  balances,         \* FetchTokenBalances' local balances slice
  errors,           \* FetchTokenBalances' local errors slice
  collectI,         \* the collect loop's counter
  cyclePc,          \* position of runFetchAndReport around the fetch stage
  \* ---- one FetchSolanaBalance / FetchTokenBalance call
  kind,             \* "sol" or "tok": which fetcher runs
  maxRetries,       \* Client.maxRetries
  urlOK,            \* whether http.NewRequestWithContext accepts Client.rpcURL
  pc,               \* position of the fetch
  attempt,          \* the retry loop's counter
  doCalls,          \* number of httpClient.Do calls made
  netSent,          \* number of requests that were put on the network
  waits,            \* the durations handed to time.After, in order
  ctxDone,          \* whether the ctx argument has been cancelled
  resp,             \* what the last httpClient.Do returned
  body,             \* what reading and decoding the 200 response gave
  fres,             \* the (balance, err) the fetch returned
  \* ---- runFetchAndReport and the CSV writer
  addrFile,         \* the lines the address file holds on disk
  deadline,         \* whether the cycle's context (WithTimeout) has expired
  cycle,            \* number of the running cycle; it stands for its run timestamp
  cPc,              \* position of runFetchAndReport
  cAddresses,       \* runFetchAndReport's local addresses
  cBalances,        \* runFetchAndReport's local balances
  ledger,           \* the run ledger: the last run's record, if any
  files,            \* the CSV files that can still be opened: path -> lines
  wrote,            \* what the cycle's WriteBalancesWithFilename call did
  stats,            \* runFetchAndReport's local stats, from GetChangeStats
  emails,           \* the reports SendReport delivered in the cycle
  ledgerReads,      \* number of GetLastRun calls the cycle made
  \* ---- main's ticker loop and the goroutines running runFetchAndReport
  mainPc,           \* position of main: its own first run, or the loop
  ticks,            \* number of ticks main has received
  isIterationRunning, \* the global flag
  iterationLock,    \* the global mutex: its holder, or NoHolder
  gPc,              \* position of each call of runFetchAndReport
  \* ---- Mailer.SendReport
  mPc,              \* position of SendReport
  mMaxRetries,      \* m.maxRetries
  mAttempt,         \* the loop variable attempt
  mSends,           \* what each sendEmail call returned, in order
  mWaits,           \* the durations handed to time.Sleep, in order
  mSendErr,         \* the local sendErr
  mRes,             \* the error SendReport returned
  \* ---- the balance extraction of FetchTokenBalance
  tPc,              \* position of the extraction
  tAccounts,        \* response.Result.Value: the token amounts of the accounts
  tBalance,         \* the balance returned
  \* ---- the run timestamp
  now,              \* the clock, in seconds
  currentRunTimestamp, \* the global of that name; "" when reset
  gRunTimestamp,     \* runFetchAndReport's local runTimestamp, per call
  logFilename,      \* the name given to log.SetFilename, per call
  csvFilename       \* the name given to WriteBalancesWithFilename, per call

fanVars == <<addresses, concurrencyLimit, callerPc, dispatchI, sem, resultCh,
             workerPc, solTask, tokenTask, solResult, tokenResult, balances,
             errors, collectI, cyclePc>>
fetchVars == <<kind, maxRetries, urlOK, pc, attempt, doCalls, netSent, waits,
               ctxDone, resp, body, fres>>
cycleVars == <<addrFile, deadline, cycle, cPc, cAddresses, cBalances, ledger, files,
               wrote, stats, emails, ledgerReads>>
tickVars == <<mainPc, ticks, isIterationRunning, iterationLock, gPc>>
mailVars == <<mPc, mMaxRetries, mAttempt, mSends, mWaits, mSendErr, mRes>>
parseVars == <<tPc, tAccounts, tBalance>>
stampVars == <<now, currentRunTimestamp, gRunTimestamp, logFilename, csvFilename>>
restVars == <<tickVars, mailVars, parseVars, stampVars>>
vars == <<fanVars, fetchVars, cycleVars, restVars>>

\* ------------------------------------------------------------------ helpers
None == [balance |-> 0, err |-> "none"]

N == Len(addresses)

RECURSIVE SeqsUpTo(_, _)
SeqsUpTo(S, n) ==
  IF n = 0 THEN {<<>>}
  ELSE LET shorter == SeqsUpTo(S, n - 1)
       IN  shorter \cup {Append(s, x) : s \in {t \in shorter : Len(t) = n - 1}, x \in S}

\* What a single fetch hands back to FetchBalances: (0, err) or (balance, nil)
FetchOutcomes(k) ==
  {[balance |-> 0, err |-> "error"]}
    \cup {[balance |-> v, err |-> "nil"] : v \in IF k = "sol" THEN SolVals ELSE TokVals}

\* ------------------------------------------------- FetchBalances (one address)
\* the two go statements of FetchBalances
SpawnedSerial(k) == [pc |-> IF k = "sol" THEN "running" ELSE "idle", res |-> None]
Spawned(k) == [pc |-> "running", res |-> None]

\* the TokenBalance record FetchBalances builds from the two received results
TokenBalance(address, sol, tok) ==
  [WalletAddress |-> address,
   TokenBalance  |-> tok.balance,
   SolanaBalance |-> sol.balance,
   TokenError    |-> tok.err,
   SolanaError   |-> sol.err]

\* FetchBalances' returned error: set only when both fetches failed
EitherFailed(sol, tok) == sol.err # "nil" \/ tok.err # "nil"
BothFailed(sol, tok) == sol.err # "nil" /\ tok.err # "nil"

\* ------------------------------------------------------------- cycle idle
NoWrite == [called |-> FALSE]
NoStats == [set |-> FALSE]
NoLastRun == [set |-> FALSE]

CycleIdle ==
  /\ addrFile = <<>>
  /\ deadline = FALSE /\ cycle = 0 /\ cPc = "idle"
  /\ cAddresses = <<>> /\ cBalances = <<>> /\ ledger = NoLastRun
  /\ files = <<>> /\ wrote = NoWrite /\ stats = NoStats /\ emails = <<>>
  /\ ledgerReads = 0

\* ------------------------------------------------------- the other parts idle
NoHolder == -1

TickIdle ==
  /\ mainPc = "idle" /\ ticks = 0 /\ isIterationRunning = FALSE
  /\ iterationLock = NoHolder /\ gPc = <<>>

MailIdle ==
  /\ mPc = "idle" /\ mMaxRetries = 0 /\ mAttempt = 0 /\ mSends = <<>>
  /\ mWaits = <<>> /\ mSendErr = "nil" /\ mRes = "none"

ParseIdle ==
  /\ tPc = "idle" /\ tAccounts = <<>> /\ tBalance = <<0, 1>>

StampIdle ==
  /\ now = 0 /\ currentRunTimestamp = ""
  /\ gRunTimestamp = <<>> /\ logFilename = <<>> /\ csvFilename = <<>>

RestIdle == TickIdle /\ MailIdle /\ ParseIdle /\ StampIdle

\* ------------------------------------------------------------- fetch idle
FetchIdle ==
  /\ kind = "sol" /\ maxRetries = 0 /\ urlOK = TRUE /\ pc = "idle"
  /\ attempt = 0 /\ doCalls = 0 /\ netSent = 0 /\ waits = <<>>
  /\ ctxDone = FALSE /\ resp = [err |-> "none", status |-> 0]
  /\ body = "none" /\ fres = [balance |-> 0, err |-> "none", cause |-> "nil"]

\* ------------------------------------------------------------------- Init
Init ==
  /\ addresses \in SeqsUpTo(Addr, MaxAddrs)
  /\ concurrencyLimit \in -1 .. MaxLimit
  /\ callerPc = "start"
  /\ dispatchI = 1
  /\ sem = 0
  /\ resultCh = <<>>
  /\ workerPc = [i \in 1 .. N |-> "idle"]
  /\ solTask = [i \in 1 .. N |-> [pc |-> "idle", res |-> None]]
  /\ tokenTask = [i \in 1 .. N |-> [pc |-> "idle", res |-> None]]
  /\ solResult = [i \in 1 .. N |-> None]
  /\ tokenResult = [i \in 1 .. N |-> None]
  /\ balances = <<>>
  /\ errors = <<>>
  /\ collectI = 0
  /\ cyclePc = "fetch"
  /\ FetchIdle
  /\ CycleIdle
  /\ RestIdle

\* ------------------------------------------------------ FetchTokenBalances
\* make(chan struct{}, concurrencyLimit): a negative size panics
MakeChannels ==
  /\ callerPc = "start"
  /\ callerPc' = IF concurrencyLimit < 0 THEN "panic"
                 ELSE IF N = 0 THEN "collect" ELSE "dispatch"
  /\ UNCHANGED <<addresses, concurrencyLimit, dispatchI, sem, resultCh,
                 workerPc, solTask, tokenTask, solResult, tokenResult,
                 balances, errors, collectI, cyclePc>>

\* whether `sem <- struct{}{}` can proceed
SemFreeUnbounded == TRUE
SemFree == sem < concurrencyLimit

\* one iteration of the dispatch loop: acquire the semaphore, start the worker
Dispatch ==
  /\ callerPc = "dispatch"
  /\ dispatchI <= N
  /\ SemFree
  /\ sem' = sem + 1
  /\ workerPc' = [workerPc EXCEPT ![dispatchI] = "run"]
  /\ dispatchI' = dispatchI + 1
  /\ callerPc' = IF dispatchI = N THEN "collect" ELSE "dispatch"
  /\ UNCHANGED <<addresses, concurrencyLimit, resultCh, solTask, tokenTask,
                 solResult, tokenResult, balances, errors, collectI, cyclePc>>

\* the worker calls FetchBalances, which starts its two goroutines
FetchBalancesStart(i) ==
  /\ workerPc[i] = "run"
  /\ solTask' = [solTask EXCEPT ![i] = Spawned("sol")]
  /\ tokenTask' = [tokenTask EXCEPT ![i] = Spawned("tok")]
  /\ workerPc' = [workerPc EXCEPT ![i] = "recvSol"]
  /\ UNCHANGED <<addresses, concurrencyLimit, callerPc, dispatchI, sem,
                 resultCh, solResult, tokenResult, balances, errors, collectI,
                 cyclePc>>

\* FetchSolanaBalance returns in its goroutine, which then offers the result
SolFetchReturn(i) ==
  /\ solTask[i].pc = "running"
  /\ \E out \in FetchOutcomes("sol") :
       solTask' = [solTask EXCEPT ![i] = [pc |-> "sending", res |-> out]]
  /\ UNCHANGED <<addresses, concurrencyLimit, callerPc, dispatchI, sem,
                 resultCh, workerPc, tokenTask, solResult, tokenResult,
                 balances, errors, collectI, cyclePc>>

\* FetchTokenBalance returns in its goroutine, which then offers the result
TokenFetchReturn(i) ==
  /\ tokenTask[i].pc = "running"
  /\ \E out \in FetchOutcomes("tok") :
       tokenTask' = [tokenTask EXCEPT ![i] = [pc |-> "sending", res |-> out]]
  /\ UNCHANGED <<addresses, concurrencyLimit, callerPc, dispatchI, sem,
                 resultCh, workerPc, solTask, solResult, tokenResult,
                 balances, errors, collectI, cyclePc>>

\* after `solResult := <-solChan` comes `tokenResult := <-tokenChan`
AfterSolSkipToken == "send"
AfterSol == "recvToken"

\* solResult := <-solChan (rendezvous on the unbuffered channel)
RecvSol(i) ==
  /\ workerPc[i] = "recvSol"
  /\ solTask[i].pc = "sending"
  /\ solResult' = [solResult EXCEPT ![i] = solTask[i].res]
  /\ solTask' = [solTask EXCEPT ![i].pc = "done"]
  /\ workerPc' = [workerPc EXCEPT ![i] = AfterSol]
  /\ UNCHANGED <<addresses, concurrencyLimit, callerPc, dispatchI, sem,
                 resultCh, tokenTask, tokenResult, balances, errors, collectI,
                 cyclePc>>

\* tokenResult := <-tokenChan; FetchBalances then builds and returns the record
RecvToken(i) ==
  /\ workerPc[i] = "recvToken"
  /\ tokenTask[i].pc = "sending"
  /\ tokenResult' = [tokenResult EXCEPT ![i] = tokenTask[i].res]
  /\ tokenTask' = [tokenTask EXCEPT ![i].pc = "done"]
  /\ workerPc' = [workerPc EXCEPT ![i] = "send"]
  /\ UNCHANGED <<addresses, concurrencyLimit, callerPc, dispatchI, sem,
                 resultCh, solTask, solResult, balances, errors, collectI,
                 cyclePc>>

\* the value the worker sends: FetchBalances' record, its error, the index
WorkerResult(i) ==
  [balance |-> TokenBalance(addresses[i], solResult[i], tokenResult[i]),
   err     |-> BothFailed(solResult[i], tokenResult[i]),
   index   |-> i]

\* whether `resultCh <- ...` can proceed: make(chan ..., len(addresses))
HasRoomUnbuffered == callerPc = "collect" /\ resultCh = <<>>
HasRoom == Len(resultCh) < N

\* resultCh <- {balance, err, i}; the channel's capacity is len(addresses)
SendResultShared(i) ==
  /\ workerPc[i] = "send"
  /\ balances' = Append(balances, WorkerResult(i).balance)
  /\ workerPc' = [workerPc EXCEPT ![i] = "release"]
  /\ UNCHANGED <<addresses, concurrencyLimit, callerPc, dispatchI, sem,
                 resultCh, solTask, tokenTask, solResult, tokenResult, errors,
                 collectI, cyclePc>>
SendResult(i) ==
  /\ workerPc[i] = "send"
  /\ HasRoom
  /\ resultCh' = Append(resultCh, WorkerResult(i))
  /\ workerPc' = [workerPc EXCEPT ![i] = "release"]
  /\ UNCHANGED <<addresses, concurrencyLimit, callerPc, dispatchI, sem,
                 solTask, tokenTask, solResult, tokenResult, balances, errors,
                 collectI, cyclePc>>

\* the deferred `<-sem`
Release(i) ==
  /\ workerPc[i] = "release"
  /\ sem > 0
  /\ sem' = sem - 1
  /\ workerPc' = [workerPc EXCEPT ![i] = "done"]
  /\ UNCHANGED <<addresses, concurrencyLimit, callerPc, dispatchI, resultCh,
                 solTask, tokenTask, solResult, tokenResult, balances, errors,
                 collectI, cyclePc>>

\* the collect loop's condition `i < len(addresses)` being false
CollectDoneWhenEmpty == resultCh = <<>>
CollectDone == collectI >= N

\* balances = append(balances, result.balance): done for every result, with
\* or without an error
AppendBalanceIfOk(bs, result) == IF result.err THEN bs ELSE Append(bs, result.balance)
AppendBalance(bs, result) == Append(bs, result.balance)

\* one iteration of the collect loop
Collect ==
  /\ callerPc = "collect"
  /\ ~CollectDone
  /\ resultCh # <<>>
  /\ LET result == Head(resultCh)
     IN  /\ errors' = IF result.err THEN Append(errors, result.index) ELSE errors
         /\ balances' = AppendBalance(balances, result)
  /\ resultCh' = Tail(resultCh)
  /\ collectI' = collectI + 1
  /\ UNCHANGED <<addresses, concurrencyLimit, callerPc, dispatchI, sem,
                 workerPc, solTask, tokenTask, solResult, tokenResult, cyclePc>>

\* FetchTokenBalances counts, logs and returns (balances, errors)
Return ==
  /\ callerPc = "collect"
  /\ CollectDone
  /\ callerPc' = "returned"
  /\ UNCHANGED <<addresses, concurrencyLimit, dispatchI, sem, resultCh,
                 workerPc, solTask, tokenTask, solResult, tokenResult,
                 balances, errors, collectI, cyclePc>>

\* runFetchAndReport after the fetch: no balances stops the cycle, otherwise
\* the balances go to the CSV stage
AfterFetch ==
  /\ cyclePc = "fetch"
  /\ callerPc = "returned"
  /\ cyclePc' = IF Len(balances) = 0 THEN "stopped" ELSE "write"
  /\ UNCHANGED <<addresses, concurrencyLimit, callerPc, dispatchI, sem,
                 resultCh, workerPc, solTask, tokenTask, solResult,
                 tokenResult, balances, errors, collectI>>

Next ==
  \/ (MakeChannels /\ UNCHANGED <<fetchVars, cycleVars, restVars>>)
  \/ (Dispatch /\ UNCHANGED <<fetchVars, cycleVars, restVars>>)
  \/ (\E i \in 1 .. N : FetchBalancesStart(i) /\ UNCHANGED <<fetchVars, cycleVars, restVars>>)
  \/ (\E i \in 1 .. N : SolFetchReturn(i) /\ UNCHANGED <<fetchVars, cycleVars, restVars>>)
  \/ (\E i \in 1 .. N : TokenFetchReturn(i) /\ UNCHANGED <<fetchVars, cycleVars, restVars>>)
  \/ (\E i \in 1 .. N : RecvSol(i) /\ UNCHANGED <<fetchVars, cycleVars, restVars>>)
  \/ (\E i \in 1 .. N : RecvToken(i) /\ UNCHANGED <<fetchVars, cycleVars, restVars>>)
  \/ (\E i \in 1 .. N : SendResult(i) /\ UNCHANGED <<fetchVars, cycleVars, restVars>>)
  \/ (\E i \in 1 .. N : Release(i) /\ UNCHANGED <<fetchVars, cycleVars, restVars>>)
  \/ (Collect /\ UNCHANGED <<fetchVars, cycleVars, restVars>>)
  \/ (Return /\ UNCHANGED <<fetchVars, cycleVars, restVars>>)
  \/ (AfterFetch /\ UNCHANGED <<fetchVars, cycleVars, restVars>>)

Spec == Init /\ [][Next]_vars

\* ---------------------------------------------------------- scheduling
\* The Go scheduler lets every goroutine that can run do so eventually: the
\* caller of FetchTokenBalances, each worker, and each of the two goroutines
\* of FetchBalances, whose fetch eventually returns.
CallerStep ==
  /\ MakeChannels \/ Dispatch \/ Collect \/ Return \/ AfterFetch
  /\ UNCHANGED <<fetchVars, cycleVars, restVars>>

WorkerStep(i) ==
  /\ i <= N
  /\ FetchBalancesStart(i) \/ RecvSol(i) \/ RecvToken(i) \/ SendResult(i) \/ Release(i)
  /\ UNCHANGED <<fetchVars, cycleVars, restVars>>

SolStep(i) ==
  /\ i <= N
  /\ SolFetchReturn(i)
  /\ UNCHANGED <<fetchVars, cycleVars, restVars>>

TokenStep(i) ==
  /\ i <= N
  /\ TokenFetchReturn(i)
  /\ UNCHANGED <<fetchVars, cycleVars, restVars>>

Fairness ==
  /\ WF_vars(CallerStep)
  /\ \A i \in 1 .. MaxAddrs :
       WF_vars(WorkerStep(i)) /\ WF_vars(SolStep(i)) /\ WF_vars(TokenStep(i))

\* Whether a goroutine blocks depends on the number of addresses and on the
\* limit, not on which addresses they are: one list per length, and the
\* limits with which the dispatch loop can start a worker.
InitFair ==
  /\ Init
  /\ concurrencyLimit >= 1
  /\ addresses = [i \in 1 .. N |-> IF i % 2 = 1 THEN "a1" ELSE "a2"]

SpecFair == InitFair /\ [][Next]_vars /\ Fairness

\* ------------------------------------------------------------------------
\* One FetchSolanaBalance / FetchTokenBalance call
\* ------------------------------------------------------------------------

\* Messages of the errors httpClient.Do is given to return.  (The message of a
\* *url.Error also quotes Client.rpcURL; the URL is taken to hold none of the
\* substrings isRetriableError looks for.)
CtxErr == "context canceled"
TransportErrors ==
  {"i/o timeout", "connection reset by peer", "unexpected EOF",
   "rate limit exceeded", "no such host", CtxErr}

\* HTTP statuses the endpoint is given to answer with
Statuses == {200, 429, 503, 500, 404}

\* What httpClient.Do may return while the context is live
Responses ==
  {[err |-> e, status |-> 0] : e \in TransportErrors \ {CtxErr}}
    \cup {[err |-> "nil", status |-> st] : st \in Statuses}

\* What reading and decoding the body of a 200 response may give
Bodies == {"unreadable", "malformed", "rpcerror", "result"}

\* strings.Contains(msg, sub) for the messages above
Contains(msg, sub) ==
  CASE msg = "i/o timeout"              -> sub \in {"timeout"}
    [] msg = "connection reset by peer" -> sub \in {"connection", "reset"}
    [] msg = "unexpected EOF"           -> sub \in {"EOF"}
    [] msg = "rate limit exceeded"      -> sub \in {"rate", "limit"}
    [] OTHER                            -> FALSE

isRetriableError(err) ==
  IF err = "nil" THEN FALSE
  ELSE \/ Contains(err, "timeout") \/ Contains(err, "connection")
       \/ Contains(err, "reset") \/ Contains(err, "EOF")
       \/ Contains(err, "broken pipe")
       \/ (Contains(err, "rate") /\ Contains(err, "limit"))
       \/ Contains(err, "429") \/ Contains(err, "502")
       \/ Contains(err, "503") \/ Contains(err, "504")

RECURSIVE Pow2(_)
Pow2(n) == IF n <= 0 THEN 1 ELSE 2 * Pow2(n - 1)

\* backoff := time.Duration(math.Pow(2, float64(attempt-1))) * c.retryDelay
BackoffOffByOne(a) == Pow2(a) * retryDelay
Backoff(a) == Pow2(a - 1) * retryDelay

\* the loop condition `attempt <= c.maxRetries` failing on the next attempt
LastAttemptOffByOne(a) == a = maxRetries + 1
LastAttempt(a) == a = maxRetries

\* the check `err != nil && !isRetriableError(err)` right after Do: only
\* FetchSolanaBalance has it
AbortsOnError(k, err) == k = "sol" /\ err # "nil" /\ ~isRetriableError(err)

\* the (balance, err) a fetch returns, with the error it wraps
Failure(e, cause) == [balance |-> 0, err |-> e, cause |-> cause]
Success(v) == [balance |-> v, err |-> "nil", cause |-> "nil"]
NoResult == [balance |-> 0, err |-> "none", cause |-> "nil"]

\* everything after the retry loop: io.ReadAll, json.Unmarshal, the check of
\* response.Error and the extraction of the balance
DecodeIgnoringError(b, v) ==
  CASE b = "unreadable" -> Failure("failed to read response", "nil")
    [] b = "malformed"  -> Failure("failed to parse response", "nil")
    [] OTHER            -> Success(IF b = "result" THEN v ELSE 0)
Decode(b, v) ==
  CASE b = "unreadable" -> Failure("failed to read response", "nil")
    [] b = "malformed"  -> Failure("failed to parse response", "nil")
    [] b = "rpcerror"   -> Failure("RPC error", "nil")
    [] OTHER            -> Success(v)

\* the loop body after httpClient.Do returned r
AfterDo(r) ==
  /\ resp' = r
  /\ IF AbortsOnError(kind, r.err)
       THEN /\ pc' = "done"
            /\ fres' = Failure("non-retriable error", r.err)
            /\ UNCHANGED <<attempt, waits>>
     ELSE IF r.err = "nil" /\ r.status = 200
       THEN /\ pc' = "read"
            /\ UNCHANGED <<attempt, waits, fres>>
     ELSE IF LastAttempt(attempt)
       THEN /\ pc' = "done"
            /\ fres' = Failure("failed after attempts", r.err)
            /\ UNCHANGED <<attempt, waits>>
     ELSE   /\ attempt' = attempt + 1
            /\ waits' = Append(waits, Backoff(attempt + 1))
            /\ pc' = "backoff"
            /\ UNCHANGED fres

\* http.NewRequestWithContext fails: the fetch returns before any Do
NewRequestFails ==
  /\ pc = "newreq"
  /\ ~urlOK
  /\ pc' = "done"
  /\ fres' = Failure("failed to create request", "nil")
  /\ UNCHANGED <<kind, maxRetries, urlOK, attempt, doCalls, netSent, waits,
                 ctxDone, resp, body>>

\* whether a request handed to Do is put on the network: the request carries
\* ctx, and the transport gives up on a context that is already done
ReachesNetwork == ~ctxDone

\* httpClient.Do(req) is called
Do ==
  /\ pc = "newreq"
  /\ urlOK
  /\ doCalls' = doCalls + 1
  /\ IF ReachesNetwork
       THEN /\ netSent' = netSent + 1
            /\ pc' = "inflight"
            /\ UNCHANGED <<attempt, waits, resp, fres>>
       ELSE /\ netSent' = netSent
            /\ AfterDo([err |-> CtxErr, status |-> 0])
  /\ UNCHANGED <<kind, maxRetries, urlOK, ctxDone, body>>

\* httpClient.Do returns for a request that is on the network
DoReturn ==
  /\ pc = "inflight"
  /\ \E r \in Responses \cup (IF ctxDone THEN {[err |-> CtxErr, status |-> 0]} ELSE {}) :
       AfterDo(r)
  /\ UNCHANGED <<kind, maxRetries, urlOK, doCalls, netSent, ctxDone, body>>

\* the select's `case <-ctx.Done()`: return 0, ctx.Err()
BackoffCancelled ==
  /\ pc = "backoff"
  /\ ctxDone
  /\ pc' = "done"
  /\ fres' = Failure(CtxErr, "nil")
  /\ UNCHANGED <<kind, maxRetries, urlOK, attempt, doCalls, netSent, waits,
                 ctxDone, resp, body>>

\* whether the select's `case <-time.After(backoff)` is taken: the timer of a
\* positive duration is not due when the select is entered, and a goroutine
\* blocked in the select is resumed by the first of the two events
TimerCaseSleep == TRUE
TimerCase == ~ctxDone

\* the select's `case <-time.After(backoff)`: continue with the retry
BackoffElapsed ==
  /\ pc = "backoff"
  /\ TimerCase
  /\ pc' = "newreq"
  /\ UNCHANGED <<kind, maxRetries, urlOK, attempt, doCalls, netSent, waits,
                 ctxDone, resp, body, fres>>

\* the code after the loop, for a 200 response
ReadBody ==
  /\ pc = "read"
  /\ \E b \in Bodies, v \in (IF kind = "sol" THEN SolVals ELSE TokVals) :
       /\ body' = b
       /\ fres' = Decode(b, v)
  /\ pc' = "done"
  /\ UNCHANGED <<kind, maxRetries, urlOK, attempt, doCalls, netSent, waits,
                 ctxDone, resp>>

\* the owner of ctx cancels it
Cancel ==
  /\ pc \notin {"idle", "done"}
  /\ ~ctxDone
  /\ ctxDone' = TRUE
  /\ UNCHANGED <<kind, maxRetries, urlOK, pc, attempt, doCalls, netSent,
                 waits, resp, body, fres>>

FanIdle ==
  /\ addresses = <<>> /\ concurrencyLimit = 1 /\ callerPc = "idle"
  /\ dispatchI = 1 /\ sem = 0 /\ resultCh = <<>>
  /\ workerPc = <<>> /\ solTask = <<>> /\ tokenTask = <<>>
  /\ solResult = <<>> /\ tokenResult = <<>>
  /\ balances = <<>> /\ errors = <<>> /\ collectI = 0 /\ cyclePc = "idle"

\* a fetch is called
FetchStart ==
  /\ kind \in {"sol", "tok"}
  /\ maxRetries \in 0 .. MaxRetriesBound
  /\ urlOK \in BOOLEAN
  /\ pc = "newreq"
  /\ attempt = 0
  /\ doCalls = 0
  /\ netSent = 0
  /\ waits = <<>>
  /\ ctxDone = FALSE
  /\ resp = [err |-> "none", status |-> 0]
  /\ body = "none"
  /\ fres = NoResult

InitFetch == FanIdle /\ CycleIdle /\ RestIdle /\ FetchStart

NextFetch ==
  \/ (NewRequestFails /\ UNCHANGED <<fanVars, cycleVars, restVars>>)
  \/ (Do /\ UNCHANGED <<fanVars, cycleVars, restVars>>)
  \/ (DoReturn /\ UNCHANGED <<fanVars, cycleVars, restVars>>)
  \/ (BackoffCancelled /\ UNCHANGED <<fanVars, cycleVars, restVars>>)
  \/ (BackoffElapsed /\ UNCHANGED <<fanVars, cycleVars, restVars>>)
  \/ (ReadBody /\ UNCHANGED <<fanVars, cycleVars, restVars>>)
  \/ (Cancel /\ UNCHANGED <<fanVars, cycleVars, restVars>>)

SpecFetch == InitFetch /\ [][NextFetch]_vars

\* ------------------------------------------------------------------------
\* A fetch made by FetchTokenBalances during a cycle of runFetchAndReport
\* ------------------------------------------------------------------------

\* the context runFetchAndReport creates with WithTimeout reaches its deadline
DeadlineExpires ==
  /\ cPc \notin {"idle", "crashed"}
  /\ ~deadline
  /\ deadline' = TRUE
  /\ UNCHANGED <<addrFile, cycle, cPc, cAddresses, cBalances, ledger, files, wrote,
                 stats, emails, ledgerReads>>

\* FetchTokenBalances' deferred cancel(): the only cancellation of the context
\* it hands to FetchBalances (context.WithCancel(context.Background())); it
\* runs when FetchTokenBalances returns, after every fetch has returned
CancelOnReturn ==
  /\ pc = "done"
  /\ ~ctxDone
  /\ ctxDone' = TRUE
  /\ UNCHANGED <<kind, maxRetries, urlOK, pc, attempt, doCalls, netSent,
                 waits, resp, body, fres>>

\* the cycle is in its fetch stage and one of its fetches starts
InitDeadline ==
  /\ FanIdle
  /\ RestIdle
  /\ FetchStart
  /\ addrFile = <<"a1">>
  /\ deadline = FALSE /\ cycle = 1 /\ cPc = "fetch"
  /\ cAddresses = <<"a1">> /\ cBalances = <<>> /\ ledger = NoLastRun
  /\ files = <<>> /\ wrote = NoWrite /\ stats = NoStats /\ emails = <<>>
  /\ ledgerReads = 0

NextDeadline ==
  \/ (NewRequestFails /\ UNCHANGED <<fanVars, cycleVars, restVars>>)
  \/ (Do /\ UNCHANGED <<fanVars, cycleVars, restVars>>)
  \/ (DoReturn /\ UNCHANGED <<fanVars, cycleVars, restVars>>)
  \/ (BackoffElapsed /\ UNCHANGED <<fanVars, cycleVars, restVars>>)
  \/ (ReadBody /\ UNCHANGED <<fanVars, cycleVars, restVars>>)
  \/ (CancelOnReturn /\ UNCHANGED <<fanVars, cycleVars, restVars>>)
  \/ (DeadlineExpires /\ UNCHANGED <<fanVars, fetchVars, restVars>>)

SpecDeadline == InitDeadline /\ [][NextDeadline]_vars

\* ------------------------------------------------------------------------
\* The cycles of runFetchAndReport and the CSV writer
\* ------------------------------------------------------------------------
MaxCycles == 1

\* contents of the address file, line by line
AddressFiles ==
  {<<>>,
   <<"a1">>,
   <<"# wallets", "a1", "", " a2 ">>,
   <<"  ", "a3", "#a1">>}

\* strings.TrimSpace, on the lines of AddressFiles
TrimSpace(s) ==
  CASE s = " a2 " -> "a2"
    [] s = "  "   -> ""
    [] OTHER      -> s

\* strings.HasPrefix, on the trimmed lines of AddressFiles
HasPrefix(s, prefix) == prefix = "#" /\ s \in {"# wallets", "#a1"}

\* if line == "" || strings.HasPrefix(line, "#") { continue }
SkippedBlankOnly(line) == line = ""
Skipped(line) == line = "" \/ HasPrefix(line, "#")

\* the scan loop of ReadAddresses: trim each line, skip it or append it
ParseAddresses(lines) ==
  LET Kept(line) == ~Skipped(line)
  IN  SelectSeq([i \in DOMAIN lines |-> TrimSpace(lines[i])], Kept)

\* balances the RPC node reports during the cycles
CycleSolVals == {5, 6}
CycleTokVals == {7}

\* the numbers balances and their differences range over
Floats == -9 .. 9

\* strconv.FormatFloat(v, 'f', -1, 64) and strconv.ParseFloat(s, 64)
FormatFloat(v) == ToString(v)
ParseFloat(s) ==
  IF \E v \in Floats : ToString(v) = s
  THEN [v |-> CHOOSE v \in Floats : ToString(v) = s, err |-> "nil"]
  ELSE [v |-> 0, err |-> "invalid syntax"]

\* the run timestamp of a cycle, the CSV file name and its path
CsvFilename(runTimestamp) == <<"balance_", runTimestamp, ".csv">>
Filepath(filename) == <<"csvDir", filename>>

Header ==
  <<"address",
    "last_solana_balance",
    "current_solana_balance",
    "change_in_solana_balance",
    "is_change_detected_in_solana_balance",
    "last_token_balance",
    "current_token_balance",
    "change_in_token_balance",
    "is_change_detected_in_token_balance">>

Max(S) == CHOOSE x \in S : \A y \in S : y <= x
Min(S) == CHOOSE x \in S : \A y \in S : x <= y

\* ---------------------------------------------------------------- run ledger
\* db.GetLastRun(): the record, no record (first run), or a read failure
GetLastRun ==
  {[rec |-> ledger, err |-> "nil"],
   [rec |-> NoLastRun, err |-> "error"]}

\* db.UpdateLastRun(timestamp, csvPath): replaces the single record, or fails
UpdateLastRun(ok, timestamp, csvPath) ==
  IF ok THEN [set |-> TRUE, Timestamp |-> timestamp, CsvPath |-> csvPath]
        ELSE ledger

\* ------------------------------------------------------------ readPreviousCSV
NoRecords == <<>>

\* the content standing for a file that exists but os.Open cannot open
Unopenable == <<<<"EACCES">>>>

readPreviousCSV(fs, csvPath) ==
  IF csvPath \notin DOMAIN fs
  THEN [records |-> NoRecords, err |-> "nil"]
  ELSE LET lines == fs[csvPath] IN
       IF lines = Unopenable
       THEN [records |-> NoRecords, err |-> "failed to open previous CSV file"]
       ELSE IF lines = <<>>
       THEN [records |-> NoRecords, err |-> "failed to read CSV header"]
       ELSE LET header == Head(lines) IN
            IF ~\E i \in DOMAIN header : header[i] = "address"
            THEN [records |-> NoRecords, err |-> "address column not found in CSV"]
            ELSE LET addressIdx == Min({i \in DOMAIN header : header[i] = "address"})
                     rows == Tail(lines)
                     columns == {header[i] : i \in DOMAIN header \ {addressIdx}}
                     Data(record) ==
                       [c \in columns |->
                          record[Max({i \in DOMAIN header \ {addressIdx} : header[i] = c})]]
                     keys == {rows[k][addressIdx] : k \in DOMAIN rows}
                 IN  [records |->
                        [a \in keys |->
                           Data(rows[Max({k \in DOMAIN rows : rows[k][addressIdx] = a})])],
                      err |-> "nil"]

\* ------------------------------------------------------------ CompareBalances
NilStats == [nil |-> TRUE]

\* stats := &ChangeStats{...} and the fetch counts (CurrentTimestamp, the
\* clock reading of the call, is left out)
\* the counter the if-else chain increments for a current record
ClassSwapped(balance) ==
  IF balance.SolanaError = "nil" /\ balance.TokenError = "nil" THEN "SuccessfulFetches"
  ELSE IF balance.SolanaError # "nil" /\ balance.TokenError # "nil" THEN "BothFetchesFailed"
  ELSE IF balance.SolanaError # "nil" THEN "TokenFetchFailed"
  ELSE "SolanaFetchFailed"
Class(balance) ==
  IF balance.SolanaError = "nil" /\ balance.TokenError = "nil" THEN "SuccessfulFetches"
  ELSE IF balance.SolanaError # "nil" /\ balance.TokenError # "nil" THEN "BothFetchesFailed"
  ELSE IF balance.SolanaError # "nil" THEN "SolanaFetchFailed"
  ELSE "TokenFetchFailed"

NewStats(currentBalances) ==
  LET CountOf(class) ==
        Cardinality({i \in DOMAIN currentBalances : Class(currentBalances[i]) = class})
  IN  [nil               |-> FALSE,
       SolanaChanges     |-> 0,
       TokenChanges      |-> 0,
       LastRunTimestamp  |-> 0,
       TotalAddresses    |-> Len(currentBalances),
       SuccessfulFetches |-> CountOf("SuccessfulFetches"),
       SolanaFetchFailed |-> CountOf("SolanaFetchFailed"),
       TokenFetchFailed  |-> CountOf("TokenFetchFailed"),
       BothFetchesFailed |-> CountOf("BothFetchesFailed")]

\* the comparison record holding only the current balances
CurrentOnlyUnchanged(balance) ==
  [WalletAddress            |-> balance.WalletAddress,
   LastSolanaBalance        |-> 0,
   CurrentSolanaBalance     |-> balance.SolanaBalance,
   ChangeInSolanaBalance    |-> 0,
   IsChangeDetectedInSolana |-> "false",
   LastTokenBalance         |-> 0,
   CurrentTokenBalance      |-> balance.TokenBalance,
   ChangeInTokenBalance     |-> 0,
   IsChangeDetectedInToken  |-> "false",
   HasLastSolanaBalance     |-> FALSE,
   HasCurrentSolanaBalance  |-> balance.SolanaError = "nil",
   HasLastTokenBalance      |-> FALSE,
   HasCurrentTokenBalance   |-> balance.TokenError = "nil"]
CurrentOnly(balance) ==
  [WalletAddress            |-> balance.WalletAddress,
   LastSolanaBalance        |-> 0,
   CurrentSolanaBalance     |-> balance.SolanaBalance,
   ChangeInSolanaBalance    |-> 0,
   IsChangeDetectedInSolana |-> "N/A",
   LastTokenBalance         |-> 0,
   CurrentTokenBalance      |-> balance.TokenBalance,
   ChangeInTokenBalance     |-> 0,
   IsChangeDetectedInToken  |-> "N/A",
   HasLastSolanaBalance     |-> FALSE,
   HasCurrentSolanaBalance  |-> balance.SolanaError = "nil",
   HasLastTokenBalance      |-> FALSE,
   HasCurrentTokenBalance   |-> balance.TokenError = "nil"]

\* the previous value of one column of a previous row, if it has one
\* a column that is missing, holds "N/A" or does not parse gives no previous
\* balance: Has...Balance stays false
NoPreviousAsZero == [has |-> TRUE, v |-> 0]
NoPrevious == [has |-> FALSE, v |-> 0]

Last(prevData, column) ==
  IF /\ column \in DOMAIN prevData
     /\ prevData[column] # "N/A"
     /\ ParseFloat(prevData[column]).err = "nil"
  THEN [has |-> TRUE, v |-> ParseFloat(prevData[column]).v]
  ELSE NoPrevious

\* the column of the previous file a kind's previous balance is taken from:
\* prevData["current_solana_balance"], prevData["current_token_balance"]
PrevColumnLast(k) == IF k = "sol" THEN "last_solana_balance" ELSE "last_token_balance"
PrevColumn(k) == IF k = "sol" THEN "current_solana_balance" ELSE "current_token_balance"

\* if record.ChangeIn...Balance != 0
ChangeDetectedAlways(change) == TRUE
ChangeDetected(change) == change # 0

\* one iteration of the loop over currentBalances
Compare(currentBalance, prevBalances) ==
  LET record == CurrentOnly(currentBalance) IN
  IF currentBalance.WalletAddress \notin DOMAIN prevBalances
  THEN record
  ELSE LET prevData == prevBalances[currentBalance.WalletAddress]
           sol == Last(prevData, PrevColumn("sol"))
           tok == Last(prevData, PrevColumn("tok"))
           solBoth == sol.has /\ record.HasCurrentSolanaBalance
           tokBoth == tok.has /\ record.HasCurrentTokenBalance
           solChange == IF solBoth THEN record.CurrentSolanaBalance - sol.v ELSE 0
           tokChange == IF tokBoth THEN record.CurrentTokenBalance - tok.v ELSE 0
           Flag(both, change) ==
             IF ~both THEN "N/A"
             ELSE IF ChangeDetected(change) THEN "true" ELSE "false"
       IN  [record EXCEPT
              !.LastSolanaBalance = sol.v,
              !.HasLastSolanaBalance = sol.has,
              !.LastTokenBalance = tok.v,
              !.HasLastTokenBalance = tok.has,
              !.ChangeInSolanaBalance = solChange,
              !.IsChangeDetectedInSolana = Flag(solBoth, solChange),
              !.ChangeInTokenBalance = tokChange,
              !.IsChangeDetectedInToken = Flag(tokBoth, tokChange)]

\* stats.SolanaChanges++ and stats.TokenChanges++ in one iteration of the loop
Increments(currentBalance, prevBalances) ==
  IF currentBalance.WalletAddress \notin DOMAIN prevBalances
  THEN [sol |-> 0, tok |-> 0]
  ELSE LET prevData == prevBalances[currentBalance.WalletAddress]
           sol == Last(prevData, PrevColumn("sol"))
           tok == Last(prevData, PrevColumn("tok"))
       IN  [sol |-> IF /\ sol.has /\ currentBalance.SolanaError = "nil"
                       /\ ChangeDetected(currentBalance.SolanaBalance - sol.v)
                    THEN 1 ELSE 0,
            tok |-> IF /\ tok.has /\ currentBalance.TokenError = "nil"
                       /\ ChangeDetected(currentBalance.TokenBalance - tok.v)
                    THEN 1 ELSE 0]

\* the value of a change counter after the first i iterations of the loop
RECURSIVE Changes(_, _, _, _)
Changes(currentBalances, prevBalances, k, i) ==
  IF i = 0 THEN 0
  ELSE Changes(currentBalances, prevBalances, k, i - 1)
         + Increments(currentBalances[i], prevBalances)[k]

\* the previous file could not be read: only the current balances, no error
DegradedAsError(onlyCurrent, stats1) ==
  [records |-> <<>>, stats |-> NilStats, err |-> "failed to read previous CSV file"]
Degraded(onlyCurrent, stats1) ==
  [records |-> onlyCurrent, stats |-> stats1, err |-> "nil"]

\* CompareBalances(currentBalances), given what GetLastRun returned and the
\* files on disk
CompareBalances(currentBalances, lastRun, fs) ==
  IF lastRun.err # "nil"
  THEN [records |-> <<>>, stats |-> NilStats, err |-> "failed to get last run info"]
  ELSE
    LET stats0 == NewStats(currentBalances)
        onlyCurrent == [i \in DOMAIN currentBalances |-> CurrentOnly(currentBalances[i])]
    IN
    IF ~lastRun.rec.set
    THEN [records |-> onlyCurrent, stats |-> stats0, err |-> "nil"]
    ELSE
      LET stats1 == [stats0 EXCEPT !.LastRunTimestamp = lastRun.rec.Timestamp]
          prev == readPreviousCSV(fs, lastRun.rec.CsvPath)
      IN
      IF prev.err # "nil"
      THEN Degraded(onlyCurrent, stats1)
      ELSE
        LET comparisonRecords ==
              [i \in DOMAIN currentBalances |-> Compare(currentBalances[i], prev.records)]
            n == Len(currentBalances)
        IN  [records |-> comparisonRecords,
             stats   |-> [stats1 EXCEPT
                            !.SolanaChanges = Changes(currentBalances, prev.records, "sol", n),
                            !.TokenChanges = Changes(currentBalances, prev.records, "tok", n)],
             err     |-> "nil"]

\* ---------------------------------------------------- WriteBalancesWithFilename
\* the row written for one comparison record
Row(record) ==
  <<record.WalletAddress,
    IF record.HasLastSolanaBalance
      THEN FormatFloat(record.LastSolanaBalance) ELSE "N/A",
    IF record.HasCurrentSolanaBalance
      THEN FormatFloat(record.CurrentSolanaBalance) ELSE "N/A",
    IF record.HasLastSolanaBalance /\ record.HasCurrentSolanaBalance
      THEN FormatFloat(record.ChangeInSolanaBalance) ELSE "N/A",
    record.IsChangeDetectedInSolana,
    IF record.HasLastTokenBalance
      THEN FormatFloat(record.LastTokenBalance) ELSE "N/A",
    IF record.HasCurrentTokenBalance
      THEN FormatFloat(record.CurrentTokenBalance) ELSE "N/A",
    IF record.HasLastTokenBalance /\ record.HasCurrentTokenBalance
      THEN FormatFloat(record.ChangeInTokenBalance) ELSE "N/A",
    record.IsChangeDetectedInToken>>

\* outcomes of the file operations: all fine; os.Create fails; writer.Write
\* returns an error (the writer's buffer filled up and could not be written
\* out); the deferred writer.Flush() fails, which nothing checks, and leaves
\* the file empty
IoOutcomes == {"ok", "createFails", "writeFails", "flushFails"}

\* what WriteBalancesWithFilename returns as error after UpdateLastRun
\* returned updateErr: a failed update is logged, not returned
AfterUpdateReturned(updateErr) == updateErr
AfterUpdate(updateErr) == "nil"

\* the whole call: CompareBalances, the file, UpdateLastRun, the final logs
\* (stats.SolanaChanges is read there: stats is nil when GetLastRun failed)
WriteBalancesWithFilename ==
  /\ cPc = "write"
  /\ \E lastRun \in GetLastRun, io \in IoOutcomes, updateOk \in BOOLEAN :
       LET cmp == CompareBalances(cBalances, lastRun, files)
           prev == IF lastRun.err = "nil" /\ lastRun.rec.set
                   THEN readPreviousCSV(files, lastRun.rec.CsvPath)
                   ELSE [records |-> NoRecords, err |-> "none"]
           filepath == Filepath(CsvFilename(cycle))
           lines == <<Header>> \o [i \in DOMAIN cmp.records |-> Row(cmp.records[i])]
       IN
       IF Len(cBalances) = 0
       THEN /\ wrote' = [called |-> TRUE, lastRun |-> lastRun, prev |-> prev,
                         cmp |-> cmp, filepath |-> filepath, io |-> "none",
                         updateErr |-> "none",
                         err |-> "no balances to write"]
            /\ cPc' = "idle"
            /\ UNCHANGED <<files, ledger, ledgerReads>>
       ELSE IF io = "createFails"
       THEN /\ wrote' = [called |-> TRUE, lastRun |-> lastRun, prev |-> prev,
                         cmp |-> cmp, filepath |-> filepath, io |-> io,
                         updateErr |-> "none",
                         err |-> "failed to create CSV file"]
            /\ cPc' = "idle"
            /\ ledgerReads' = ledgerReads + 1
            /\ UNCHANGED <<files, ledger>>
       ELSE IF io = "writeFails"
       THEN /\ wrote' = [called |-> TRUE, lastRun |-> lastRun, prev |-> prev,
                         cmp |-> cmp, filepath |-> filepath, io |-> io,
                         updateErr |-> "none",
                         err |-> "failed to write CSV row"]
            /\ files' = [p \in DOMAIN files \cup {filepath} |->
                           IF p = filepath THEN <<>> ELSE files[p]]
            /\ cPc' = "idle"
            /\ ledgerReads' = ledgerReads + 1
            /\ UNCHANGED ledger
       ELSE /\ files' = [p \in DOMAIN files \cup {filepath} |->
                           IF p = filepath
                           THEN (IF io = "ok" THEN lines ELSE <<>>)
                           ELSE files[p]]
            /\ ledger' = UpdateLastRun(updateOk, cycle, filepath)
            /\ ledgerReads' = ledgerReads + 1
            /\ LET updateErr == IF updateOk THEN "nil" ELSE "error"
                   err == IF cmp.stats.nil THEN "panic" ELSE AfterUpdate(updateErr)
               IN  /\ wrote' = [called |-> TRUE, lastRun |-> lastRun, prev |-> prev,
                                cmp |-> cmp, filepath |-> filepath, io |-> io,
                                updateErr |-> updateErr,
                                err |-> err]
                   /\ cPc' = IF err = "panic" THEN "crashed"
                             ELSE IF err = "nil" THEN "stats" ELSE "idle"
  /\ UNCHANGED <<addrFile, deadline, cycle, cAddresses, cBalances, stats, emails>>

\* ------------------------------------------------------------ runFetchAndReport
\* ctx.Err() != nil: "Operation cancelled", return
CtxCheckIgnored(next) == next
CtxCheck(next) == IF deadline THEN "idle" ELSE next

\* the ticker (or main, for the first run) calls runFetchAndReport: run
\* timestamp, log file, context with timeout. CSV files of earlier runs that
\* the ledger does not name are never opened again and are dropped here.
StartCycle ==
  /\ cPc = "idle"
  /\ cycle < MaxCycles
  /\ cycle' = cycle + 1
  /\ \E logOk \in BOOLEAN : cPc' = IF logOk THEN "read" ELSE "idle"
  /\ deadline' = FALSE
  /\ cAddresses' = <<>> /\ cBalances' = <<>>
  /\ wrote' = NoWrite /\ stats' = NoStats /\ emails' = <<>> /\ ledgerReads' = 0
  /\ files' = [p \in (IF ledger.set THEN {ledger.CsvPath} ELSE {}) \cap DOMAIN files
                 |-> files[p]]
  /\ UNCHANGED <<addrFile, ledger>>

\* someone edits the address file while the program keeps running (between
\* two cycles)
EditAddressFile ==
  /\ cPc = "idle"
  /\ cycle < MaxCycles
  /\ addrFile' \in AddressFiles \ {addrFile}
  /\ UNCHANGED <<deadline, cycle, cPc, cAddresses, cBalances, ledger, files,
                 wrote, stats, emails, ledgerReads>>

\* addressReader.ReadAddresses() of whatever the address file holds now, and
\* the check after it
ReadAddresses ==
  /\ cPc = "read"
  /\ \E ok \in BOOLEAN :
       /\ cAddresses' = IF ok THEN ParseAddresses(addrFile) ELSE <<>>
       /\ cPc' = IF ok THEN CtxCheck("fetch") ELSE "idle"
  /\ UNCHANGED <<addrFile, deadline, cycle, cBalances, ledger, files, wrote, stats,
                 emails, ledgerReads>>

\* what a single fetch of the stage hands back
CycleOutcomes(k) ==
  {[balance |-> 0, err |-> "error"]}
    \cup {[balance |-> v, err |-> "nil"] :
            v \in IF k = "sol" THEN CycleSolVals ELSE CycleTokVals}

\* the balances FetchTokenBalances can return for the addresses: one record
\* per address (here in the order of the addresses; the order in which the
\* workers finish is explored under Spec)
StageResults(addrs) ==
  LET n == Len(addrs)
      Pair == [sol : CycleOutcomes("sol"), tok : CycleOutcomes("tok")]
  IN  {[i \in 1 .. n |-> TokenBalance(addrs[i], o[i].sol, o[i].tok)] :
         o \in [1 .. n -> Pair]}

\* the call of FetchTokenBalances as one step, and the two checks after it
FetchStage ==
  /\ cPc = "fetch"
  /\ \E bs \in StageResults(cAddresses) :
       /\ cBalances' = bs
       /\ cPc' = IF Len(bs) = 0 THEN "idle" ELSE CtxCheck("write")
  /\ UNCHANGED <<addrFile, deadline, cycle, cAddresses, ledger, files, wrote,
                 stats, emails, ledgerReads>>

\* stats = &csvwriter.ChangeStats{CurrentTimestamp, TotalAddresses}
DefaultStats(n) ==
  [nil               |-> FALSE,
   SolanaChanges     |-> 0,
   TokenChanges      |-> 0,
   LastRunTimestamp  |-> 0,
   TotalAddresses    |-> n,
   SuccessfulFetches |-> 0,
   SolanaFetchFailed |-> 0,
   TokenFetchFailed  |-> 0,
   BothFetchesFailed |-> 0]

\* stats, err := csvWriter.GetChangeStats(balances), and the check after it
GetChangeStats ==
  /\ cPc = "stats"
  /\ \E lastRun \in GetLastRun :
       LET cmp == CompareBalances(cBalances, lastRun, files) IN
       stats' = [set |-> TRUE,
                 lastRun |-> lastRun,
                 v |-> IF cmp.err # "nil" THEN DefaultStats(Len(cBalances))
                       ELSE cmp.stats]
  /\ ledgerReads' = ledgerReads + 1
  /\ cPc' = CtxCheck("send")
  /\ UNCHANGED <<addrFile, deadline, cycle, cAddresses, cBalances, ledger,
                 files, wrote, emails>>

\* mailClient.SendReport(csvPath, balances, stats)
SendReport ==
  /\ cPc = "send"
  /\ \E ok \in BOOLEAN :
       emails' = IF ok
                 THEN Append(emails, [csvPath |-> wrote.filepath,
                                      balances |-> cBalances,
                                      stats |-> stats.v])
                 ELSE emails
  /\ cPc' = "idle"
  /\ UNCHANGED <<addrFile, deadline, cycle, cAddresses, cBalances, ledger,
                 files, wrote, stats, ledgerReads>>

\* what an earlier execution of the program left in the database and the CSV
\* directory: nothing (a fresh installation), or the record and the file of
\* a first run over two addresses, one of whose native fetches failed
PriorBalances ==
  <<TokenBalance("a1", [balance |-> 5, err |-> "nil"], [balance |-> 7, err |-> "nil"]),
    TokenBalance("a2", [balance |-> 0, err |-> "error"], [balance |-> 7, err |-> "nil"])>>

Persisted ==
  LET filepath == Filepath(CsvFilename(0))
      first == CompareBalances(PriorBalances, [rec |-> NoLastRun, err |-> "nil"], <<>>)
  IN  {[ledger |-> NoLastRun, files |-> <<>>],
       [ledger |-> [set |-> TRUE, Timestamp |-> 0, CsvPath |-> filepath],
        files  |-> filepath :>
                     (<<Header>> \o [i \in DOMAIN first.records |-> Row(first.records[i])])]}

\* the program starts: no cycle has run yet
InitCycle ==
  /\ FanIdle
  /\ FetchIdle
  /\ RestIdle
  /\ addrFile \in AddressFiles
  /\ deadline = FALSE /\ cycle = 0 /\ cPc = "idle"
  /\ cAddresses = <<>> /\ cBalances = <<>>
  /\ \E persisted \in Persisted : ledger = persisted.ledger /\ files = persisted.files
  /\ wrote = NoWrite /\ stats = NoStats /\ emails = <<>>
  /\ ledgerReads = 0

NextCycle ==
  \/ (EditAddressFile /\ UNCHANGED <<fanVars, fetchVars, restVars>>)
  \/ (StartCycle /\ UNCHANGED <<fanVars, fetchVars, restVars>>)
  \/ (ReadAddresses /\ UNCHANGED <<fanVars, fetchVars, restVars>>)
  \/ (FetchStage /\ UNCHANGED <<fanVars, fetchVars, restVars>>)
  \/ (WriteBalancesWithFilename /\ UNCHANGED <<fanVars, fetchVars, restVars>>)
  \/ (GetChangeStats /\ UNCHANGED <<fanVars, fetchVars, restVars>>)
  \/ (SendReport /\ UNCHANGED <<fanVars, fetchVars, restVars>>)
  \/ (DeadlineExpires /\ UNCHANGED <<fanVars, fetchVars, restVars>>)

SpecCycle == InitCycle /\ [][NextCycle]_vars

\* ------------------------------------------------------------------------
\* One call of CompareBalances
\* ------------------------------------------------------------------------

\* ledgers and CSV directories the call can find: those of Persisted, and a
\* ledger record whose file is missing, cannot be opened, is empty, or has
\* a header without an "address" column
Stores ==
  LET filepath == Filepath(CsvFilename(0))
      record == [set |-> TRUE, Timestamp |-> 0, CsvPath |-> filepath]
  IN  Persisted
        \cup {[ledger |-> record, files |-> <<>>],
              [ledger |-> record, files |-> filepath :> Unopenable],
              [ledger |-> record, files |-> filepath :> <<>>],
              [ledger |-> record,
               files  |-> filepath :> <<<<"wallet", "current_solana_balance">>,
                                        <<"a1", "5">>>>]}

InitCompare ==
  /\ FanIdle
  /\ FetchIdle
  /\ RestIdle
  /\ deadline = FALSE /\ cycle = 1 /\ cPc = "compare"
  /\ addrFile \in AddressFiles
  /\ cAddresses = ParseAddresses(addrFile)
  /\ cBalances \in StageResults(cAddresses)
  /\ \E store \in Stores : ledger = store.ledger /\ files = store.files
  /\ wrote = NoWrite /\ stats = NoStats /\ emails = <<>>
  /\ ledgerReads = 0

\* comparisonRecords, stats, err := w.CompareBalances(balances)
CompareBalancesCall ==
  /\ cPc = "compare"
  /\ \E lastRun \in GetLastRun :
       LET cmp == CompareBalances(cBalances, lastRun, files)
           prev == IF lastRun.err = "nil" /\ lastRun.rec.set
                   THEN readPreviousCSV(files, lastRun.rec.CsvPath)
                   ELSE [records |-> NoRecords, err |-> "none"]
       IN  wrote' = [called |-> TRUE, lastRun |-> lastRun, prev |-> prev,
                     cmp |-> cmp, filepath |-> <<>>, io |-> "none",
                     updateErr |-> "none",
                     err |-> cmp.err]
  /\ ledgerReads' = ledgerReads + 1
  /\ cPc' = "compared"
  /\ UNCHANGED <<addrFile, deadline, cycle, cAddresses, cBalances, ledger, files, stats,
                 emails>>

NextCompare ==
  \/ (CompareBalancesCall /\ UNCHANGED <<fanVars, fetchVars, restVars>>)

SpecCompare == InitCompare /\ [][NextCompare]_vars

\* ------------------------------------------------------------------------
\* main's ticker loop and the calls of runFetchAndReport
\* ------------------------------------------------------------------------
MaxTicks == 3

\* the calls of runFetchAndReport: main's own first call, and the goroutine
\* started at each tick
MainCall == 0
Calls == MainCall .. MaxTicks

\* the call holds iterationLock: it is in the body of runFetchAndReport or
\* in its deferred functions
InBody(g) == gPc[g] \in {"flag", "body", "unflag", "unlock"}

InitTicker ==
  /\ FanIdle
  /\ FetchIdle
  /\ CycleIdle
  /\ MailIdle
  /\ ParseIdle
  /\ StampIdle
  /\ mainPc = "first"
  /\ ticks = 0
  /\ isIterationRunning = FALSE
  /\ iterationLock = NoHolder
  /\ gPc = [g \in Calls |-> IF g = MainCall THEN "lock" ELSE "none"]

\* iterationLock.Lock() returns only when no call holds the mutex
LockFreeAlways == TRUE
LockFree == iterationLock = NoHolder

Lock(g) ==
  /\ gPc[g] = "lock"
  /\ LockFree
  /\ iterationLock' = g
  /\ gPc' = [gPc EXCEPT ![g] = "flag"]
  /\ UNCHANGED <<mainPc, ticks, isIterationRunning>>

\* isIterationRunning = true
SetRunning(g) ==
  /\ gPc[g] = "flag"
  /\ isIterationRunning' = TRUE
  /\ gPc' = [gPc EXCEPT ![g] = "body"]
  /\ UNCHANGED <<mainPc, ticks, iterationLock>>

\* the rest of runFetchAndReport, up to its return
Body(g) ==
  /\ gPc[g] = "body"
  /\ gPc' = [gPc EXCEPT ![g] = "unflag"]
  /\ UNCHANGED <<mainPc, ticks, isIterationRunning, iterationLock>>

\* the deferred func() { isIterationRunning = false }()
ClearRunning(g) ==
  /\ gPc[g] = "unflag"
  /\ isIterationRunning' = FALSE
  /\ gPc' = [gPc EXCEPT ![g] = "unlock"]
  /\ UNCHANGED <<mainPc, ticks, iterationLock>>

\* the deferred iterationLock.Unlock(); main enters its loop when its own
\* call returns
Unlock(g) ==
  /\ gPc[g] = "unlock"
  /\ iterationLock' = NoHolder
  /\ gPc' = [gPc EXCEPT ![g] = "done"]
  /\ mainPc' = IF g = MainCall THEN "loop" ELSE mainPc
  /\ UNCHANGED <<ticks, isIterationRunning>>

\* what main's read of isIterationRunning can give: the flag is written by
\* the goroutines under iterationLock and read by main without it, so once
\* a goroutine has been started the read races with their writes
FlagReads ==
  IF \E g \in Calls \ {MainCall} : gPc[g] # "none"
  THEN BOOLEAN
  ELSE {isIterationRunning}

\* case <-ticker.C: start a goroutine unless the flag reads as set
Tick ==
  /\ mainPc = "loop"
  /\ ticks < MaxTicks
  /\ ticks' = ticks + 1
  /\ \E running \in FlagReads :
       gPc' = IF running THEN gPc ELSE [gPc EXCEPT ![ticks + 1] = "lock"]
  /\ UNCHANGED <<mainPc, isIterationRunning, iterationLock>>

NextTicker ==
  \/ (\E g \in Calls : Lock(g) /\ UNCHANGED <<fanVars, fetchVars, cycleVars, mailVars, parseVars, stampVars>>)
  \/ (\E g \in Calls : SetRunning(g) /\ UNCHANGED <<fanVars, fetchVars, cycleVars, mailVars, parseVars, stampVars>>)
  \/ (\E g \in Calls : Body(g) /\ UNCHANGED <<fanVars, fetchVars, cycleVars, mailVars, parseVars, stampVars>>)
  \/ (\E g \in Calls : ClearRunning(g) /\ UNCHANGED <<fanVars, fetchVars, cycleVars, mailVars, parseVars, stampVars>>)
  \/ (\E g \in Calls : Unlock(g) /\ UNCHANGED <<fanVars, fetchVars, cycleVars, mailVars, parseVars, stampVars>>)
  \/ (Tick /\ UNCHANGED <<fanVars, fetchVars, cycleVars, mailVars, parseVars, stampVars>>)

SpecTicker == InitTicker /\ [][NextTicker]_vars

\* ------------------------------------------------------------------------
\* The run timestamp of a cycle
\* ------------------------------------------------------------------------
MaxClock == 2

\* time.Now().UTC().Format("2006-01-02_15_04_05"): the second, as text
Format(t) == ToString(t)

\* getRunTimestamp(): sets the global if it is empty, returns it
StampAlwaysNow == Format(now)
Stamp == IF currentRunTimestamp = "" THEN Format(now) ELSE currentRunTimestamp

LogFilename(ts) == <<"activity_", ts, ".log">>

InitStamp ==
  /\ FanIdle
  /\ FetchIdle
  /\ CycleIdle
  /\ MailIdle
  /\ ParseIdle
  /\ mainPc = "first"
  /\ ticks = 0
  /\ isIterationRunning = FALSE
  /\ iterationLock = NoHolder
  /\ gPc = [g \in Calls |-> IF g = MainCall THEN "lock" ELSE "none"]
  /\ now = 0
  /\ currentRunTimestamp = ""
  /\ gRunTimestamp = [g \in Calls |-> ""]
  /\ logFilename = [g \in Calls |-> <<>>]
  /\ csvFilename = [g \in Calls |-> <<>>]

\* a second passes
ClockTick ==
  /\ now < MaxClock
  /\ now' = now + 1
  /\ UNCHANGED <<currentRunTimestamp, gRunTimestamp, logFilename, csvFilename>>

\* resetRunTimestamp()
ResetRunTimestamp(g) ==
  /\ gPc[g] = "body"
  /\ currentRunTimestamp' = ""
  /\ gPc' = [gPc EXCEPT ![g] = "stamp"]
  /\ UNCHANGED <<now, gRunTimestamp, logFilename, csvFilename>>

\* runTimestamp := getRunTimestamp()
GetRunTimestamp(g) ==
  /\ gPc[g] = "stamp"
  /\ currentRunTimestamp' = Stamp
  /\ gRunTimestamp' = [gRunTimestamp EXCEPT ![g] = Stamp]
  /\ gPc' = [gPc EXCEPT ![g] = "logname"]
  /\ UNCHANGED <<now, logFilename, csvFilename>>

\* log.SetFilename("activity_<runTimestamp>.log"); a failure ends the cycle
SetFilename(g) ==
  /\ gPc[g] = "logname"
  /\ logFilename' = [logFilename EXCEPT ![g] = LogFilename(gRunTimestamp[g])]
  /\ \E ok \in BOOLEAN :
       gPc' = [gPc EXCEPT ![g] = IF ok THEN "csvname" ELSE "unflag"]
  /\ UNCHANGED <<now, currentRunTimestamp, gRunTimestamp, csvFilename>>

\* csvFilename := "balance_<ts>.csv", after the read and the fetch: ts is the
\* local runTimestamp, or in the earlier runFetchAndReport a second call of
\* getRunTimestamp(); then the rest of the cycle
NameCsv(g) ==
  /\ gPc[g] = "csvname"
  /\ \E again \in BOOLEAN :
       /\ csvFilename' = [csvFilename EXCEPT
                            ![g] = CsvFilename(IF again THEN Stamp ELSE gRunTimestamp[g])]
       /\ currentRunTimestamp' = IF again THEN Stamp ELSE currentRunTimestamp
  /\ gPc' = [gPc EXCEPT ![g] = "unflag"]
  /\ UNCHANGED <<now, gRunTimestamp, logFilename>>

NextStamp ==
  \/ (\E g \in Calls : Lock(g) /\ UNCHANGED <<fanVars, fetchVars, cycleVars, mailVars, parseVars, stampVars>>)
  \/ (\E g \in Calls : SetRunning(g) /\ UNCHANGED <<fanVars, fetchVars, cycleVars, mailVars, parseVars, stampVars>>)
  \/ (\E g \in Calls : ResetRunTimestamp(g) /\ UNCHANGED <<fanVars, fetchVars, cycleVars, mailVars, parseVars, mainPc, ticks, isIterationRunning, iterationLock>>)
  \/ (\E g \in Calls : GetRunTimestamp(g) /\ UNCHANGED <<fanVars, fetchVars, cycleVars, mailVars, parseVars, mainPc, ticks, isIterationRunning, iterationLock>>)
  \/ (\E g \in Calls : SetFilename(g) /\ UNCHANGED <<fanVars, fetchVars, cycleVars, mailVars, parseVars, mainPc, ticks, isIterationRunning, iterationLock>>)
  \/ (\E g \in Calls : NameCsv(g) /\ UNCHANGED <<fanVars, fetchVars, cycleVars, mailVars, parseVars, mainPc, ticks, isIterationRunning, iterationLock>>)
  \/ (\E g \in Calls : ClearRunning(g) /\ UNCHANGED <<fanVars, fetchVars, cycleVars, mailVars, parseVars, stampVars>>)
  \/ (\E g \in Calls : Unlock(g) /\ UNCHANGED <<fanVars, fetchVars, cycleVars, mailVars, parseVars, stampVars>>)
  \/ (Tick /\ UNCHANGED <<fanVars, fetchVars, cycleVars, mailVars, parseVars, stampVars>>)
  \/ (ClockTick /\ UNCHANGED <<fanVars, fetchVars, cycleVars, mailVars, parseVars, tickVars>>)

SpecStamp == InitStamp /\ [][NextStamp]_vars

\* ------------------------------------------------------------------------
\* Mailer.SendReport
\* ------------------------------------------------------------------------
\* New: retryDelay: 500 * time.Millisecond
mailRetryDelay == 500

\* what happens before the send loop: nothing wrong, or one of the returns
Preparations ==
  {"ok",
   "no recipients configured",
   "failed to parse time from filename",
   "failed to read CSV file"}

\* what sendEmail returns: nil when StartTLS or, after it failed, direct TLS
\* delivered the message, otherwise the error of the direct TLS attempt
SendOutcomes ==
  {"nil",
   "failed to connect to SMTP server",
   "SMTP authentication failed",
   "failed to write mail data"}

\* backoff := time.Duration(math.Pow(2, float64(attempt-1))) * m.retryDelay
MailBackoffOffByOne(a) == Pow2(a) * mailRetryDelay
MailBackoff(a) == Pow2(a - 1) * mailRetryDelay

InitMail ==
  /\ FanIdle
  /\ FetchIdle
  /\ CycleIdle
  /\ TickIdle
  /\ ParseIdle
  /\ StampIdle
  /\ mPc = "start"
  /\ mMaxRetries \in 0 .. MaxRetriesBound
  /\ mAttempt = 0 /\ mSends = <<>> /\ mWaits = <<>>
  /\ mSendErr = "nil" /\ mRes = "none"

\* the recipients check, the time parsed from the file name, the file read
Prepare ==
  /\ mPc = "start"
  /\ \E p \in Preparations :
       IF p = "ok"
       THEN mPc' = "loop" /\ mRes' = mRes
       ELSE mPc' = "done" /\ mRes' = p
  /\ UNCHANGED <<mMaxRetries, mAttempt, mSends, mWaits, mSendErr>>

\* attempt <= m.maxRetries with attempt = 0: no wait
FirstAttempt ==
  /\ mPc = "loop"
  /\ mAttempt <= mMaxRetries
  /\ mAttempt = 0
  /\ mPc' = "send"
  /\ UNCHANGED <<mMaxRetries, mAttempt, mSends, mWaits, mSendErr, mRes>>

\* attempt <= m.maxRetries with attempt > 0: time.Sleep(backoff)
Sleep ==
  /\ mPc = "loop"
  /\ mAttempt <= mMaxRetries
  /\ mAttempt > 0
  /\ mWaits' = Append(mWaits, MailBackoff(mAttempt))
  /\ mPc' = "send"
  /\ UNCHANGED <<mMaxRetries, mAttempt, mSends, mSendErr, mRes>>

\* sendErr = m.sendEmail(mimeMsgBytes); break on nil, else attempt++
SendEmail ==
  /\ mPc = "send"
  /\ \E r \in SendOutcomes :
       /\ mSends' = Append(mSends, r)
       /\ mSendErr' = r
       /\ IF r = "nil"
          THEN mPc' = "ret" /\ mAttempt' = mAttempt
          ELSE mPc' = "loop" /\ mAttempt' = mAttempt + 1
  /\ UNCHANGED <<mMaxRetries, mWaits, mRes>>

\* attempt <= m.maxRetries is false
AttemptsExhausted ==
  /\ mPc = "loop"
  /\ mAttempt > mMaxRetries
  /\ mPc' = "ret"
  /\ UNCHANGED <<mMaxRetries, mAttempt, mSends, mWaits, mSendErr, mRes>>

\* if sendErr != nil return the error, else return nil
MailReturn ==
  /\ mPc = "ret"
  /\ mRes' = IF mSendErr # "nil" THEN "failed to send email" ELSE "nil"
  /\ mPc' = "done"
  /\ UNCHANGED <<mMaxRetries, mAttempt, mSends, mWaits, mSendErr>>

NextMail ==
  \/ (Prepare /\ UNCHANGED <<fanVars, fetchVars, cycleVars, tickVars, parseVars, stampVars>>)
  \/ (FirstAttempt /\ UNCHANGED <<fanVars, fetchVars, cycleVars, tickVars, parseVars, stampVars>>)
  \/ (Sleep /\ UNCHANGED <<fanVars, fetchVars, cycleVars, tickVars, parseVars, stampVars>>)
  \/ (SendEmail /\ UNCHANGED <<fanVars, fetchVars, cycleVars, tickVars, parseVars, stampVars>>)
  \/ (AttemptsExhausted /\ UNCHANGED <<fanVars, fetchVars, cycleVars, tickVars, parseVars, stampVars>>)
  \/ (MailReturn /\ UNCHANGED <<fanVars, fetchVars, cycleVars, tickVars, parseVars, stampVars>>)

SpecMail == InitMail /\ [][NextMail]_vars

\* ------------------------------------------------------------------------
\* FetchTokenBalance: from the response body to the balance
\* ------------------------------------------------------------------------
MaxAccounts == 2

\* Balances are rationals <<numerator, denominator>> in lowest terms; the
\* float64 the code returns is the one nearest to the rational.
RECURSIVE GCD(_, _)
GCD(a, b) == IF b = 0 THEN a ELSE GCD(b, a % b)

Rat(n, d) == LET g == GCD(n, d) IN IF g = 0 THEN <<0, 1>> ELSE <<n \div g, d \div g>>

Zero == <<0, 1>>

\* new(big.Int).SetString(amountStr, 10), on the amount strings of
\* TokenAmounts: the integer and ok, or !ok
SetString(amountStr) ==
  CASE amountStr = "123450000" -> [ok |-> TRUE, value |-> 123450000]
    [] amountStr = "2500000"   -> [ok |-> TRUE, value |-> 2500000]
    [] amountStr = "0"         -> [ok |-> TRUE, value |-> 0]
    [] OTHER                   -> [ok |-> FALSE, value |-> 0]

\* new(big.Int).Exp(big.NewInt(10), big.NewInt(int64(decimals)), nil): 1 for
\* an exponent that is not positive
RECURSIVE Exp10(_)
Exp10(decimals) == IF decimals <= 0 THEN 1 ELSE 10 * Exp10(decimals - 1)

\* the tokenAmount objects a response can carry: uiAmount is 0 when the node
\* sends 0 or null
TokenAmounts ==
  [Amount   : {"123450000", "2500000", "0", ""},
   Decimals : {0, 6},
   UIAmount : {Zero, Rat(5, 2), Rat(7, 1)}]

\* response.Result.Value[0]
FirstAsLast(value) == value[Len(value)]
First(value) == value[1]

\* divisor := new(big.Float).SetInt(new(big.Int).Exp(10, decimals, nil))
DivisorIgnoringDecimals(decimals) == 1
Divisor(decimals) == Exp10(decimals)

\* the "Extract balance" block
ExtractBalance(value) ==
  IF Len(value) > 0
  THEN LET tokenAmount == First(value).Account.Data.Parsed.Info.TokenAmount
           amount == SetString(tokenAmount.Amount)
       IN  IF tokenAmount.UIAmount # Zero
           THEN tokenAmount.UIAmount
           ELSE IF amount.ok
                THEN Rat(amount.value, Divisor(tokenAmount.Decimals))
                ELSE Zero
  ELSE Zero

\* {"account": {"data": {"parsed": {"info": {"tokenAmount": ...}}}}}
Account(tokenAmount) ==
  [Account |-> [Data |-> [Parsed |-> [Info |-> [TokenAmount |-> tokenAmount]]]]]

RECURSIVE Values(_)
Values(n) ==
  IF n = 0 THEN {<<>>}
  ELSE Values(n - 1)
         \cup {Append(v, Account(t)) : v \in {w \in Values(n - 1) : Len(w) = n - 1},
                                       t \in TokenAmounts}

\* the body of a 200 response has been read
InitToken ==
  /\ FanIdle
  /\ FetchIdle
  /\ CycleIdle
  /\ TickIdle
  /\ MailIdle
  /\ StampIdle
  /\ tPc = "body"
  /\ tAccounts \in Values(MaxAccounts)
  /\ tBalance = Zero

\* json.Unmarshal and the check of response.Error: return 0 and an error, or
\* go on to the extraction
Unmarshal ==
  /\ tPc = "body"
  /\ tPc' \in {"failed to parse response", "RPC error", "extract"}
  /\ UNCHANGED <<tAccounts, tBalance>>

\* the extraction and `return balance, nil`
ReturnBalance ==
  /\ tPc = "extract"
  /\ tBalance' = ExtractBalance(tAccounts)
  /\ tPc' = "returned"
  /\ UNCHANGED tAccounts

NextToken ==
  \/ (Unmarshal /\ UNCHANGED <<fanVars, fetchVars, cycleVars, tickVars, mailVars, stampVars>>)
  \/ (ReturnBalance /\ UNCHANGED <<fanVars, fetchVars, cycleVars, tickVars, mailVars, stampVars>>)

SpecToken == InitToken /\ [][NextToken]_vars

\* ------------------------------------------------------------------------
\* Properties of FetchTokenBalances / FetchBalances (checked under Spec)
\* ------------------------------------------------------------------------
Count(seq, a) == Cardinality({k \in 1 .. Len(seq) : seq[k] = a})
WalletAddresses == [k \in 1 .. Len(balances) |-> balances[k].WalletAddress]

\* C1: for a non-empty address list and concurrencyLimit >= 1, the returned
\* balances hold exactly one record per input address (same multiset of
\* WalletAddress values as the input), whatever fetches failed; a record with
\* both errors set is emitted like any other.
C1_OneRecordPerAddress ==
  (callerPc = "returned" /\ N >= 1 /\ concurrencyLimit >= 1) =>
     /\ Len(balances) = N
     /\ \A a \in Addr : Count(WalletAddresses, a) = Count(addresses, a)

C1_Witness ==
  /\ callerPc = "returned" /\ N >= 2 /\ concurrencyLimit >= 1
  /\ \E k \in 1 .. Len(balances) :
       balances[k].SolanaError # "nil" /\ balances[k].TokenError # "nil"
  /\ \E k \in 1 .. Len(balances) : balances[k].SolanaError = "nil"

\* the addresses whose worker holds a semaphore slot: admitted, not yet released
InFlight == {i \in 1 .. N : workerPc[i] \in {"run", "recvSol", "recvToken", "send", "release"}}

\* C2: with concurrencyLimit >= 1, never more than concurrencyLimit addresses
\* are admitted and not yet released; a further address is started only after
\* a release.
C2_AtMostLimitInFlight ==
  concurrencyLimit >= 1 => Cardinality(InFlight) <= concurrencyLimit

C2_Witness ==
  /\ concurrencyLimit >= 1
  /\ Cardinality(InFlight) = concurrencyLimit
  /\ callerPc = "dispatch" /\ dispatchI <= N

\* C3: FetchTokenBalances has returned, and the cycle has moved past its fetch
\* stage, only when the outcome of every address has been collected: the
\* balances handed on are never a partial set.
C3_JoinBarrier ==
  (callerPc = "returned" \/ cyclePc \in {"write", "stopped"}) =>
     /\ collectI = N
     /\ Len(balances) = N
     /\ resultCh = <<>>
     /\ \A i \in 1 .. N : workerPc[i] \in {"release", "done"}

C3_Witness == cyclePc = "write" /\ N >= 2 /\ Len(balances) = N

\* C4: the native and the token task of an address are both started before
\* FetchBalances waits for either, and the record is built only after both
\* delivered, its native fields being the native task's result and its token
\* fields the token task's.
C4_BothTasksThenRecord ==
  /\ \A i \in 1 .. N :
       /\ workerPc[i] \in {"recvSol", "recvToken"} =>
            solTask[i].pc # "idle" /\ tokenTask[i].pc # "idle"
       /\ workerPc[i] = "send" =>
            /\ solTask[i].pc = "done" /\ tokenTask[i].pc = "done"
            /\ WorkerResult(i).balance.SolanaBalance = solTask[i].res.balance
            /\ WorkerResult(i).balance.SolanaError = solTask[i].res.err
            /\ WorkerResult(i).balance.TokenBalance = tokenTask[i].res.balance
            /\ WorkerResult(i).balance.TokenError = tokenTask[i].res.err
  /\ \A k \in 1 .. Len(resultCh) :
       LET r == resultCh[k]
       IN  /\ solTask[r.index].pc = "done" /\ tokenTask[r.index].pc = "done"
           /\ r.balance.SolanaBalance = solTask[r.index].res.balance
           /\ r.balance.SolanaError = solTask[r.index].res.err
           /\ r.balance.TokenBalance = tokenTask[r.index].res.balance
           /\ r.balance.TokenError = tokenTask[r.index].res.err

C4_Witness ==
  \E i, j \in 1 .. N :
    /\ solTask[i].pc = "running" /\ tokenTask[i].pc = "running"
    /\ workerPc[j] = "send"
    /\ solTask[j].res.err = "nil" /\ tokenTask[j].res.err # "nil"

\* ------------------------------------------------------------------------
\* Termination of the fan-out (checked under SpecFair)
\* ------------------------------------------------------------------------

\* C31: with concurrencyLimit >= 1 and every fetch returning,
\* FetchTokenBalances eventually returns, for every number of addresses: the
\* dispatcher does not stay blocked on the semaphore and no worker stays
\* blocked on the result channel.
C31_FetchTokenBalancesReturns ==
  (concurrencyLimit >= 1) => <>(callerPc = "returned")

\* more addresses than the limit: the dispatcher had to wait for a release
C31_Witness ==
  /\ callerPc = "returned"
  /\ N = 2
  /\ concurrencyLimit = 1
  /\ Len(balances) = 2

\* C32: whichever of the two fetches of an address finishes first, both
\* sends on the result channels are received, and both goroutines have
\* ended when FetchBalances returns its record.
C32_NoTaskLeftBlocked ==
  /\ [](\A i \in 1 .. N :
          workerPc[i] \in {"send", "release", "done"} =>
            solTask[i].pc = "done" /\ tokenTask[i].pc = "done")
  /\ <>[](\A i \in 1 .. N :
            solTask[i].pc # "sending" /\ tokenTask[i].pc # "sending")

\* the token fetch finished first and waited for the native result to be
\* received; both goroutines have ended and the record is returned
C32_Witness ==
  \E i \in 1 .. N :
    /\ workerPc[i] = "send"
    /\ solTask[i].pc = "done" /\ tokenTask[i].pc = "done"
    /\ solResult[i] # None /\ tokenResult[i] # None

\* ------------------------------------------------------------------------
\* Properties of one fetch (checked under SpecFetch)
\* ------------------------------------------------------------------------
Ok200(r) == r.err = "nil" /\ r.status = 200

\* C5 as stated: every fetch issues at least 1 and at most maxRetries+1
\* attempts, stops at the first 200, and returns an error when every attempt
\* failed.
C5_AttemptsBetweenOneAndMax ==
  /\ doCalls <= maxRetries + 1
  /\ pc = "done" => doCalls >= 1
  /\ Ok200(resp) => pc \in {"read", "done"}
  /\ (pc = "done" /\ fres.err = "nil") => Ok200(resp)

\* C5 as amended: a fetch issues at most maxRetries+1 attempts, and at least 1
\* unless the HTTP request cannot be built, in which case it returns an error
\* without any attempt; it stops at the first 200 and returns a balance only
\* after a 200.
C5_AttemptsAtMostMax ==
  /\ doCalls <= maxRetries + 1
  /\ (pc = "done" /\ urlOK) => doCalls >= 1
  /\ (pc = "done" /\ ~urlOK) => (doCalls = 0 /\ fres.err # "nil")
  /\ Ok200(resp) => pc \in {"read", "done"}
  /\ (pc = "done" /\ fres.err = "nil") => Ok200(resp)

C5_Witness ==
  /\ pc = "done" /\ maxRetries >= 1 /\ doCalls = maxRetries + 1
  /\ fres.err = "failed after attempts"

\* C6: the k-th wait is retryDelay * 2^(k-1) (the first is retryDelay, each
\* further one twice the one before); a wait only follows an attempt, so k
\* waits have been started only after k attempts and none before the first.
C6_BackoffDoubles ==
  /\ Len(waits) <= doCalls
  /\ pc \in {"newreq", "backoff"} => Len(waits) = doCalls
  /\ pc = "inflight" => Len(waits) = doCalls - 1
  /\ \A k \in 1 .. Len(waits) :
       waits[k] = IF k = 1 THEN retryDelay ELSE 2 * waits[k - 1]

C6_Witness == pc = "inflight" /\ Len(waits) >= 2

\* C7: in both fetchers no attempt follows an attempt that failed with a
\* transport error isRetriableError rejects.
C7_TerminalErrorEndsFetch ==
  [][doCalls' > doCalls =>
       ~(resp.err \notin {"nil", "none"} /\ ~isRetriableError(resp.err))]_vars

\* the failures the specification lists as retriable
ListedRetriable(r) ==
  \/ r.err \in {"i/o timeout", "connection reset by peer", "unexpected EOF",
                "rate limit exceeded"}
  \/ (r.err = "nil" /\ r.status \in {429, 502, 503, 504})

\* C8: an attempt follows a failed attempt only when that failure is a listed
\* retriable one (timeout/reset/EOF, rate limit, HTTP 429/502/503/504).
C8_RetriesOnlyListedFailures ==
  [][(doCalls' > doCalls /\ doCalls > 0) => ListedRetriable(resp)]_vars

\* C9: a 200 response whose body decodes to an RPC error ends the fetch with
\* that RPC error, with no attempt after the one that got the 200.
C9_RpcErrorIsTerminal ==
  body = "rpcerror" =>
     /\ pc = "done"
     /\ fres = Failure("RPC error", "nil")
     /\ Ok200(resp)
     /\ doCalls = attempt + 1

C9_Witness == body = "rpcerror" /\ pc = "done" /\ attempt < maxRetries

\* C10: once ctx is cancelled no further request is put on the network, and a
\* fetch that is in its backoff wait when ctx is cancelled leaves the wait only
\* by returning the cancellation error, with no further attempt.
C10_CancelEndsBackoff ==
  [][/\ ctxDone => netSent' = netSent
     /\ (pc = "backoff" /\ ctxDone /\ pc' # pc) =>
          (pc' = "done" /\ fres' = Failure(CtxErr, "nil") /\ doCalls' = doCalls)]_vars

C10_Witness ==
  /\ pc = "done" /\ fres.err = CtxErr /\ waits # <<>>
  /\ attempt <= maxRetries /\ doCalls = attempt

\* ------------------------------------------------------------------------
\* Further properties of FetchTokenBalances (checked under Spec)
\* ------------------------------------------------------------------------
SolFailed == {i \in 1 .. N : solTask[i].res.err \notin {"nil", "none"}}
TokenFailed == {i \in 1 .. N : tokenTask[i].res.err \notin {"nil", "none"}}

\* C12 as stated: the returned errors hold one entry per failed fetch, i.e.
\* as many entries as native fetches failed plus token fetches failed.
C12_OneErrorPerFailedFetch ==
  callerPc = "returned" =>
     Len(errors) = Cardinality(SolFailed) + Cardinality(TokenFailed)

\* C12 as amended: the returned errors hold exactly one entry per address
\* whose native fetch and token fetch both failed, and none for any other
\* address: an address contributes 0 or 1 entries.
C12_OneErrorPerDoubleFailure ==
  callerPc = "returned" =>
     /\ Len(errors) = Cardinality(SolFailed \cap TokenFailed)
     /\ {errors[k] : k \in 1 .. Len(errors)} = SolFailed \cap TokenFailed

C12_Witness ==
  /\ callerPc = "returned"
  /\ Len(errors) = 1
  /\ Cardinality(SolFailed) + Cardinality(TokenFailed) = 3

\* C13: a call with concurrencyLimit <= 0 is rejected before anything is
\* started: it neither panics nor enters the dispatch loop (where it would
\* wait for a semaphore slot that never comes), and no worker is started.
C13_NonPositiveLimitRejected ==
  concurrencyLimit <= 0 =>
     /\ callerPc \notin {"panic", "dispatch"}
     /\ \A i \in 1 .. N : workerPc[i] = "idle"

\* ------------------------------------------------------------------------
\* Properties of a fetch under the cycle's deadline (checked under SpecDeadline)
\* ------------------------------------------------------------------------

\* C11: once the cycle's deadline has expired, a fetch that is still
\* outstanding starts no new attempt and no new backoff wait.
C11_DeadlineAbortsFetch ==
  [][deadline => (doCalls' = doCalls /\ waits' = waits)]_vars

\* ------------------------------------------------------------------------
\* Properties of the cycle and of CompareBalances (checked under SpecCycle)
\* ------------------------------------------------------------------------
DoubleFailed(b) == b.SolanaError # "nil" /\ b.TokenError # "nil"

\* the fetch stage of the running cycle returned records, all double-failed
NoUsableRecord ==
  /\ cBalances # <<>>
  /\ \A i \in DOMAIN cBalances : DoubleFailed(cBalances[i])

\* the rows of the CSV file the running cycle wrote
CycleRows == Tail(files[wrote.filepath])

\* the cell a balance kind is expected to show: its value, or the marker
Cell(err, v) == IF err = "nil" THEN FormatFloat(v) ELSE "N/A"

\* C14: when every record of the cycle has both errors set, the cycle stops
\* before the report: WriteBalancesWithFilename is not called, no CSV file of
\* the cycle exists, the ledger does not name the cycle, no email is sent.
C14_NoReportWithoutUsableRecord ==
  NoUsableRecord =>
     /\ ~wrote.called
     /\ Filepath(CsvFilename(cycle)) \notin DOMAIN files
     /\ (ledger.set => ledger.Timestamp # cycle)
     /\ emails = <<>>

\* C15: when at least one fetch of the cycle succeeded and the CSV file was
\* written, the cycle goes on without crashing and the file holds one row
\* per input address, each balance kind showing its value if its fetch
\* succeeded and "N/A" if it failed.
C15_PartialFailureStillReported ==
  (/\ wrote.called
   /\ wrote.io = "ok"
   /\ \E i \in DOMAIN cBalances : ~DoubleFailed(cBalances[i]))
  =>
     /\ cPc # "crashed"
     /\ Len(CycleRows) = Len(cAddresses)
     /\ \A i \in DOMAIN CycleRows :
          /\ CycleRows[i][1] = cAddresses[i]
          /\ CycleRows[i][3] = Cell(cBalances[i].SolanaError, cBalances[i].SolanaBalance)
          /\ CycleRows[i][7] = Cell(cBalances[i].TokenError, cBalances[i].TokenBalance)

\* the previous value CompareBalances had for a current record and a column:
\* the cell of the address's row in the previous file, unless it is "N/A"
Stored(b, column) ==
  LET prevBalances == wrote.prev.records IN
  IF /\ b.WalletAddress \in DOMAIN prevBalances
     /\ prevBalances[b.WalletAddress][column] # "N/A"
  THEN [has |-> TRUE, cell |-> prevBalances[b.WalletAddress][column]]
  ELSE [has |-> FALSE, cell |-> "N/A"]

\* what C16 asks of one balance kind of a comparison record
Joined(currentErr, current, stored, hasLast, change, flag) ==
  IF currentErr = "nil" /\ stored.has
  THEN /\ hasLast
       /\ change = current - ParseFloat(stored.cell).v
       /\ flag = (IF change # 0 THEN "true" ELSE "false")
  ELSE /\ flag = "N/A"
       /\ change = 0

\* C16: every call of CompareBalances returns one comparison record per
\* current record, in the same position and with the same address, and each
\* balance kind is joined with its previous value as Joined says.
C16_OneComparisonPerRecord ==
  wrote.called =>
     LET records == wrote.cmp.records IN
     /\ Len(records) = Len(cBalances)
     /\ \A i \in DOMAIN records :
          LET b == cBalances[i]
              r == records[i]
          IN  /\ r.WalletAddress = b.WalletAddress
              /\ Joined(b.SolanaError, b.SolanaBalance,
                        Stored(b, "current_solana_balance"),
                        r.HasLastSolanaBalance, r.ChangeInSolanaBalance,
                        r.IsChangeDetectedInSolana)
              /\ Joined(b.TokenError, b.TokenBalance,
                        Stored(b, "current_token_balance"),
                        r.HasLastTokenBalance, r.ChangeInTokenBalance,
                        r.IsChangeDetectedInToken)

\* the current balance of a kind equals the stored previous one
IdenticalSol(b) ==
  /\ b.SolanaError = "nil"
  /\ Stored(b, "current_solana_balance").has
  /\ Stored(b, "current_solana_balance").cell = FormatFloat(b.SolanaBalance)
IdenticalTok(b) ==
  /\ b.TokenError = "nil"
  /\ Stored(b, "current_token_balance").has
  /\ Stored(b, "current_token_balance").cell = FormatFloat(b.TokenBalance)

\* C17: when CompareBalances compared the current balances with a previous
\* file, a balance identical to the stored one has flag "false" and change
\* 0, and the change counters count no identical balance.
C17_IdenticalIsUnchanged ==
  (wrote.called /\ wrote.prev.err = "nil") =>
     LET records == wrote.cmp.records IN
     /\ \A i \in DOMAIN records :
          /\ IdenticalSol(cBalances[i]) =>
               /\ records[i].IsChangeDetectedInSolana = "false"
               /\ records[i].ChangeInSolanaBalance = 0
          /\ IdenticalTok(cBalances[i]) =>
               /\ records[i].IsChangeDetectedInToken = "false"
               /\ records[i].ChangeInTokenBalance = 0
     /\ wrote.cmp.stats.SolanaChanges
          <= Cardinality({i \in DOMAIN cBalances : ~IdenticalSol(cBalances[i])})
     /\ wrote.cmp.stats.TokenChanges
          <= Cardinality({i \in DOMAIN cBalances : ~IdenticalTok(cBalances[i])})

C17_Witness ==
  /\ wrote.called /\ wrote.prev.err = "nil"
  /\ Len(cBalances) = 2
  /\ IdenticalSol(cBalances[1]) /\ IdenticalTok(cBalances[1])
  /\ wrote.cmp.records[1].IsChangeDetectedInSolana = "false"
  /\ wrote.cmp.records[1].IsChangeDetectedInToken = "false"
  /\ wrote.cmp.stats.SolanaChanges = 0
  /\ wrote.cmp.stats.TokenChanges = 0

\* C18: when GetLastRun reports that the ledger holds no record,
\* CompareBalances returns no error, every comparison record has both flags
\* "N/A", no previous value and no change, and both change counters are 0.
C18_FirstRunNotApplicable ==
  (wrote.called /\ wrote.lastRun.err = "nil" /\ ~wrote.lastRun.rec.set) =>
     LET records == wrote.cmp.records IN
     /\ wrote.cmp.err = "nil"
     /\ Len(records) = Len(cBalances)
     /\ \A i \in DOMAIN records :
          /\ records[i].IsChangeDetectedInSolana = "N/A"
          /\ records[i].IsChangeDetectedInToken = "N/A"
          /\ ~records[i].HasLastSolanaBalance
          /\ ~records[i].HasLastTokenBalance
          /\ records[i].ChangeInSolanaBalance = 0
          /\ records[i].ChangeInTokenBalance = 0
     /\ wrote.cmp.stats.SolanaChanges = 0
     /\ wrote.cmp.stats.TokenChanges = 0

C18_Witness ==
  /\ wrote.called /\ wrote.lastRun.err = "nil" /\ ~wrote.lastRun.rec.set
  /\ Len(wrote.cmp.records) = 2
  /\ wrote.cmp.records[2].HasCurrentSolanaBalance
  /\ wrote.cmp.records[2].IsChangeDetectedInSolana = "N/A"

\* C19: a cycle reads the ledger once, and the statistics it hands to the
\* email are computed against the previous run's record, never against the
\* record the cycle itself wrote.
C19_LedgerReadOncePerCycle ==
  /\ ledgerReads <= 1
  /\ (stats.set /\ stats.lastRun.rec.set) => stats.lastRun.rec.Timestamp # cycle
  /\ \A k \in DOMAIN emails : emails[k].stats.LastRunTimestamp # cycle

\* C20: when GetLastRun failed and the CSV file was written, the cycle has
\* not crashed and the file holds one row per current record, with the
\* current cells and "N/A" in every previous, change and flag cell.
C20_LedgerReadFailureDegrades ==
  (wrote.called /\ wrote.lastRun.err # "nil" /\ wrote.io = "ok") =>
     /\ cPc # "crashed"
     /\ Len(CycleRows) = Len(cBalances)
     /\ \A i \in DOMAIN CycleRows :
          CycleRows[i] =
            <<cBalances[i].WalletAddress,
              "N/A",
              Cell(cBalances[i].SolanaError, cBalances[i].SolanaBalance),
              "N/A", "N/A", "N/A",
              Cell(cBalances[i].TokenError, cBalances[i].TokenBalance),
              "N/A", "N/A">>

\* ------------------------------------------------------------------------
\* Properties of one CompareBalances call (checked under SpecCompare)
\* ------------------------------------------------------------------------

\* GetLastRun returned a record, and the file it names is missing or
\* readPreviousCSV failed on it
PriorUnreadable ==
  /\ wrote.called
  /\ wrote.lastRun.err = "nil" /\ wrote.lastRun.rec.set
  /\ \/ wrote.lastRun.rec.CsvPath \notin DOMAIN files
     \/ wrote.prev.err # "nil"

\* C21: when the ledger holds a record whose file cannot be read,
\* CompareBalances returns no error and one comparison record per current
\* record, each with the record's address, no previous value and both
\* flags "N/A".
C21_UnreadablePriorDegrades ==
  PriorUnreadable =>
     LET records == wrote.cmp.records IN
     /\ wrote.cmp.err = "nil"
     /\ Len(records) = Len(cBalances)
     /\ \A i \in DOMAIN records :
          /\ records[i].WalletAddress = cBalances[i].WalletAddress
          /\ ~records[i].HasLastSolanaBalance
          /\ ~records[i].HasLastTokenBalance
          /\ records[i].IsChangeDetectedInSolana = "N/A"
          /\ records[i].IsChangeDetectedInToken = "N/A"

C21_Witness ==
  /\ PriorUnreadable
  /\ wrote.prev.err = "address column not found in CSV"
  /\ Len(wrote.cmp.records) = 2
  /\ wrote.cmp.records[1].IsChangeDetectedInSolana = "N/A"

\* ------------------------------------------------------------------------
\* Further properties of the cycle (checked under SpecCycle)
\* ------------------------------------------------------------------------

\* WriteBalancesWithFilename wrote rows and UpdateLastRun then failed
UpdateFailedAfterRows ==
  /\ wrote.called
  /\ wrote.updateErr = "error"
  /\ Len(wrote.cmp.records) >= 1

\* C22: when UpdateLastRun fails after the rows were written,
\* WriteBalancesWithFilename returns the path of the cycle's CSV and no
\* error, and the cycle goes on: it is at GetChangeStats or SendReport, or
\* has ended after GetChangeStats.
C22_UpdateFailureOnlyLogged ==
  UpdateFailedAfterRows =>
     /\ wrote.err = "nil"
     /\ wrote.filepath = Filepath(CsvFilename(cycle))
     /\ cPc \in {"stats", "send", "idle"}
     /\ (cPc = "idle" => stats.set)

C22_Witness ==
  /\ UpdateFailedAfterRows
  /\ wrote.io = "ok"
  /\ Len(emails) = 1
  /\ emails[1].csvPath = wrote.filepath

\* ------------------------------------------------------------------------
\* Further properties of one CompareBalances call (checked under SpecCompare)
\* ------------------------------------------------------------------------

\* the number of current records that satisfy P
Records(P(_)) == Cardinality({i \in DOMAIN cBalances : P(cBalances[i])})

BothOk(b) == b.SolanaError = "nil" /\ b.TokenError = "nil"
NativeOnly(b) == b.SolanaError = "nil" /\ b.TokenError # "nil"
TokenOnly(b) == b.SolanaError # "nil" /\ b.TokenError = "nil"

\* C23: the statistics of a CompareBalances call count the both-succeeded
\* records in SuccessfulFetches, the native-only successes in
\* TokenFetchFailed, the token-only successes in SolanaFetchFailed and the
\* double failures in BothFetchesFailed, the four counters sum to
\* TotalAddresses, and SolanaChanges / TokenChanges equal the number of
\* comparison records whose native / token flag is "true".
C23_StatsClassifyEveryRecord ==
  (wrote.called /\ wrote.cmp.err = "nil") =>
     LET st == wrote.cmp.stats
         records == wrote.cmp.records
     IN  /\ st.TotalAddresses = Len(cBalances)
         /\ st.SuccessfulFetches = Records(BothOk)
         /\ st.TokenFetchFailed = Records(NativeOnly)
         /\ st.SolanaFetchFailed = Records(TokenOnly)
         /\ st.BothFetchesFailed = Records(DoubleFailed)
         /\ st.SuccessfulFetches + st.TokenFetchFailed + st.SolanaFetchFailed
              + st.BothFetchesFailed = st.TotalAddresses
         /\ st.SolanaChanges =
              Cardinality({i \in DOMAIN records :
                             records[i].IsChangeDetectedInSolana = "true"})
         /\ st.TokenChanges =
              Cardinality({i \in DOMAIN records :
                             records[i].IsChangeDetectedInToken = "true"})

C23_Witness ==
  /\ wrote.called /\ wrote.cmp.err = "nil"
  /\ Len(cBalances) = 2
  /\ NativeOnly(cBalances[1]) /\ TokenOnly(cBalances[2])
  /\ wrote.cmp.stats.TokenFetchFailed = 1
  /\ wrote.cmp.stats.SolanaFetchFailed = 1
  /\ wrote.cmp.stats.SuccessfulFetches = 0
  /\ wrote.cmp.stats.SolanaChanges = 1
  /\ wrote.cmp.records[1].IsChangeDetectedInSolana = "true"

\* ------------------------------------------------------------------------
\* Properties of the ticker loop (checked under SpecTicker)
\* ------------------------------------------------------------------------

\* C24: at most one call of runFetchAndReport is past iterationLock.Lock()
\* and before its Unlock() at any time, and that call is the lock's holder.
C24_OneCycleBodyAtATime ==
  /\ Cardinality({g \in Calls : InBody(g)}) <= 1
  /\ \A g \in Calls : InBody(g) => iterationLock = g

C24_Witness ==
  \E g, h \in Calls :
     /\ g # h
     /\ gPc[g] = "body"
     /\ gPc[h] = "lock"

\* C33: a tick that fires while a cycle started by an earlier tick has not
\* finished starts no further call of runFetchAndReport (none runs, none
\* waits for the lock).
C33_TickDuringCycleSkipped ==
  [][(ticks' = ticks + 1
        /\ \E g \in 1 .. ticks : gPc[g] \notin {"none", "done"})
       => gPc' = gPc]_vars

\* ------------------------------------------------------------------------
\* Further properties of the fan-out (checked under Spec)
\* ------------------------------------------------------------------------

\* the RPC calls outstanding: the fetches that have started and not returned
OutstandingRpc ==
  Cardinality({i \in 1 .. N : solTask[i].pc = "running"})
    + Cardinality({i \in 1 .. N : tokenTask[i].pc = "running"})

\* C25: with concurrencyLimit >= 1, the native and token RPC calls
\* outstanding at any moment are together at most concurrencyLimit.
C25_AtMostLimitRpcCalls ==
  concurrencyLimit >= 1 => OutstandingRpc <= concurrencyLimit

C27_MailRetriesWithBackoff ==
  /\ Len(mSends) <= mMaxRetries + 1
  /\ Len(mWaits) <= Len(mSends)
  /\ (mSends = <<>> => mWaits = <<>>)
  /\ (mPc = "done" /\ mSends # <<>>) => Len(mWaits) = Len(mSends) - 1
  /\ \A k \in DOMAIN mWaits : mWaits[k] = mailRetryDelay * Pow2(k - 1)
  /\ \A k \in DOMAIN mSends : mSends[k] = "nil" => k = Len(mSends)
  /\ (mPc = "done" /\ mSends # <<>> /\ mSends[Len(mSends)] = "nil") => mRes = "nil"
  /\ (mPc = "done" /\ mRes = "nil") => (mSends # <<>> /\ mSends[Len(mSends)] = "nil")
  /\ (mPc = "done" /\ mRes # "nil") => \A k \in DOMAIN mSends : mSends[k] # "nil"

C27_Witness ==
  /\ mPc = "done"
  /\ mRes = "nil"
  /\ Len(mSends) = 3
  /\ mWaits = <<500, 1000>>

\* ------------------------------------------------------------------------
\* The address file (checked under SpecCycle)
\* ------------------------------------------------------------------------
KeptLines ==
  {i \in DOMAIN addrFile :
     TrimSpace(addrFile[i]) # "" /\ ~HasPrefix(TrimSpace(addrFile[i]), "#")}

C29_EmptyIsZeroElseFirstAccount ==
  tPc = "returned" =>
    /\ tAccounts = <<>> => tBalance = Zero
    /\ tAccounts # <<>> => tBalance = ExtractBalance(<<tAccounts[1]>>)

\* two accounts with different amounts: the first one's is returned
C29_Witness ==
  /\ tPc = "returned"
  /\ Len(tAccounts) = 2
  /\ tAccounts[1].Account.Data.Parsed.Info.TokenAmount.UIAmount = Rat(5, 2)
  /\ tAccounts[2].Account.Data.Parsed.Info.TokenAmount.UIAmount = Rat(7, 1)
  /\ tBalance = Rat(5, 2)

\* C30: the balance is the account's uiAmount when that is not zero; when it
\* is exactly 0 and the amount string is an integer, the balance is that
\* integer divided by 10^decimals (uiAmount 0, amount "123450000", decimals
\* 6 give 123.45).
C30_UiAmountElseRawOverDecimals ==
  (tPc = "returned" /\ tAccounts # <<>>) =>
    LET t == tAccounts[1].Account.Data.Parsed.Info.TokenAmount
        raw == SetString(t.Amount)
    IN  /\ t.UIAmount # Zero => tBalance = t.UIAmount
        /\ (t.UIAmount = Zero /\ raw.ok) =>
             tBalance = Rat(raw.value, Exp10(t.Decimals))
        /\ (t.UIAmount = Zero /\ t.Amount = "123450000" /\ t.Decimals = 6) =>
             tBalance[1] * 100 = 12345 * tBalance[2]

C30_Witness ==
  /\ tPc = "returned"
  /\ tAccounts # <<>>
  /\ tAccounts[1].Account.Data.Parsed.Info.TokenAmount
       = [Amount |-> "123450000", Decimals |-> 6, UIAmount |-> Zero]
  /\ tBalance = <<2469, 20>>

\* ------------------------------------------------------------------------
\* Consecutive cycles (checked under SpecCycle)
\* ------------------------------------------------------------------------

\* the lines of the file the ledger named when the cycle's write read it
PrevRunFile == files[wrote.lastRun.rec.CsvPath]

\* the cycle's write compared its records with the file of the previous run,
\* which holds that run's header and rows
ComparedWithPrevRun ==
  /\ wrote.called
  /\ cBalances # <<>>
  /\ wrote.lastRun.err = "nil"
  /\ wrote.lastRun.rec.set
  /\ wrote.lastRun.rec.CsvPath \in DOMAIN files
  /\ PrevRunFile # <<>>
  /\ Head(PrevRunFile) = Header

\* the row the previous run wrote for an address (the last one, should the
\* address have several), or none
PrevRunRow(address) ==
  LET rows == {k \in 2 .. Len(PrevRunFile) : PrevRunFile[k][1] = address}
  IN  IF rows = {} THEN <<>> ELSE PrevRunFile[Max(rows)]

\* the previous value of a comparison record is the cell the previous run
\* wrote as its current value
FromPrevRun(row, cellIdx, hasLast, last) ==
  IF row = <<>> \/ row[cellIdx] = "N/A"
  THEN ~hasLast
  ELSE hasLast /\ FormatFloat(last) = row[cellIdx]

FailedThenFetched(row, cellIdx, currentErr) ==
  row # <<>> /\ row[cellIdx] = "N/A" /\ currentErr = "nil"

C36_LedgerUpdatedOnlyAfterFullWrite ==
  [][/\ ledger' # ledger =>
          /\ cPc = "write"
          /\ cBalances # <<>>
          /\ ledger'.CsvPath = wrote'.filepath
          /\ wrote'.filepath \in DOMAIN files'
          /\ Len(files'[wrote'.filepath]) = Len(cBalances) + 1
     /\ (cPc = "write" /\ wrote'.called
           /\ (cBalances = <<>> \/ wrote'.io # "ok")) =>
          /\ wrote'.err \notin {"nil", "panic"}
          /\ ledger' = ledger]_vars

\* the order of the stages of a cycle, as moves of runFetchAndReport
StageOrder ==
  {<<"idle", "read">>,
   <<"read", "fetch">>, <<"read", "idle">>,
   <<"fetch", "write">>, <<"fetch", "idle">>,
   <<"write", "stats">>, <<"write", "idle">>, <<"write", "crashed">>,
   <<"stats", "send">>, <<"stats", "idle">>,
   <<"send", "idle">>}

Stamping(g) == gPc[g] \in {"stamp", "logname", "csvname"}

\* C38: the log file name and the CSV file name of a cycle carry the same
\* run timestamp: once set, the global timestamp changes only by a reset,
\* and a reset is made only by the call that holds iterationLock, while no
\* other call is between its own reset and the naming of its CSV file.
C38_OneTimestampPerCycle ==
  /\ [](\A g \in Calls :
          csvFilename[g] # <<>> =>
            /\ logFilename[g] # <<>>
            /\ csvFilename[g][2] = logFilename[g][2])
  /\ [][/\ (currentRunTimestamp # "" /\ currentRunTimestamp' # currentRunTimestamp)
             => currentRunTimestamp' = ""
        /\ (currentRunTimestamp # "" /\ currentRunTimestamp' = "") =>
             \E g \in Calls :
                /\ iterationLock = g
                /\ gPc[g] = "body"
                /\ \A h \in Calls \ {g} : ~Stamping(h)]_vars

\* the clock moved on during the cycle, and another call waits for the lock
C38_Witness ==
  \E g, h \in Calls :
     /\ g # h
     /\ gPc[h] = "lock"
     /\ csvFilename[g] = CsvFilename("0")
     /\ logFilename[g] = LogFilename("0")
     /\ gPc[g] = "unflag"
     /\ now > 0

====
